---- MODULE Spec2Model ----
(***************************************************************************)
(* Model of the screen-detection control loop of luo1227/luoluo-ai:        *)
(* capture -> infer -> hotkey gate -> nearest-box selection -> relative    *)
(* pointer move, driven by the egui control surface (src/src/main.rs),     *)
(* the capture session (src/src/capture.rs) and the hotkey listener        *)
(* (src/src/input_listener.rs).                                            *)
(*                                                                         *)
(* Numbers.  The clock counts ticks of 1/TicksPerMs millisecond, so that   *)
(* Duration::as_millis truncates.  f32 quantities are kept as exact        *)
(* rationals with a fixed denominator: box coordinates are integers,       *)
(* centres are kept doubled (x2), sensitivities and target offsets are     *)
(* kept in hundredths.  On the coordinate ranges used here f32 arithmetic  *)
(* is exact and sqrt is strictly increasing, so comparing distances is     *)
(* comparing their squares.                                                *)
(***************************************************************************)
EXTENDS Integers, Sequences, FiniteSets, TLC

VARIABLES
    now,             \* monotonic clock (Instant), in ticks
    phys,            \* set of mouse buttons physically held down (GetAsyncKeyState)
    display,         \* dimensions <<W, H>> of the primary display
    is_running,      \* DetectionApp.is_running (AtomicBool)
    capture_config,  \* DetectionApp.capture_config.mode (Mutex<CaptureConfig>)
    ui,              \* control settings and custom rectangle edited on the control surface
    model_loaded,    \* whether the inferencer holds a loaded model
    logs,            \* DetectionApp.logs: sequence of [level, msg]
    runs,            \* number of runs started so far
    listener_running,\* InputListener.running (AtomicBool)
    hotkey_pressed,  \* InputListener.hotkey_pressed
    hotkey_name,     \* InputListener.hotkey_name
    last_trigger,    \* InputListener.last_trigger (Instant)
    toggle_state,    \* InputListener.toggle_state
    press_edges_odd, \* history: hotkey_pressed went from false to true an odd number
                     \* of times since the toggle state was last reset
    poller,          \* hotkey poller threads: slot -> [pc, sample]
    loop,            \* loop worker threads: slot -> record of the thread's locals
    capturing,       \* InputListener.capturing (AtomicBool)
    captured_key,    \* InputListener.captured_key (Option<String>)
    capturing_hotkey,\* DetectionApp.capturing_hotkey
    capturer,        \* hotkey-capture threads: slot -> [pc]
    overflow_checks, \* the build panics on integer overflow (debug) or wraps (release)
    call,            \* a call of capture_region on its own: arguments, then result
    conv,            \* a BGRA to RGB conversion: the two buffers and the pixels still to do
    meta,            \* a call of InferenceEngine::load_model: arguments, then result
    eng,             \* a call of InferenceEngine::capture_once: its position and locals
    conf_threshold,  \* InferenceEngine.conf_threshold (Mutex<f32>), in hundredths
    stats_on,        \* whether the workers' window counters are carried in the state
    sampled,         \* history: "yes" once a poller has written hotkey_pressed since the
                     \* last start, "no" before that, "off" where it is not recorded
    locks            \* the mutexes: who holds each, and what each thread has still to do
                     \* in the operation it is in

vars == <<now, phys, display, is_running, capture_config, ui, model_loaded, logs, runs,
          listener_running, hotkey_pressed, hotkey_name, last_trigger, toggle_state,
          press_edges_odd, poller, loop, capturing, captured_key, capturing_hotkey,
          capturer, overflow_checks, call, conv, meta, eng, conf_threshold, stats_on,
          sampled, locks>>

\* The state of the hotkey capture for the settings
capvars == <<capturing, captured_key, capturing_hotkey, capturer>>

\* The build and the call under study
callvars == <<overflow_checks, call, conv, meta, eng, conf_threshold, stats_on, sampled,
             locks>>

\* The calls of the inference engine under study, and the shared threshold
libvars == <<conv, meta, eng, conf_threshold, stats_on>>

-----------------------------------------------------------------------------
(* Bounds of the model *)

TicksPerMs == 2
MaxTimeMs == 205
MaxRuns == 2
MaxDets == 1
MaxLen == 3
MaxLog == 5
MaxCapturers == 1

\* Width of the machine word the model computes u32 values in, scaled down from 32
WordBits == 12

\* Largest width and height of a frame whose pixels are converted one by one
MaxSide == 2

\* Largest number of words a file name is put together from
MaxTokens == 3

\* Report intervals the clock of the statistics covers
MaxWindows == 2

\* Most frames counted within one report interval
MaxFrames == 2

\* Most results one run of the model returns
MaxYs == 2

U32 == 2 ^ WordBits

(* Program constants *)

CooldownMs == 100
Center640 == 640
Center1280 == 1280

CooldownTicks == CooldownMs * TicksPerMs
MaxTime == MaxTimeMs * TicksPerMs

\* The clock advances by just under, or exactly, one cooldown.
Steps == {CooldownTicks - 1, CooldownTicks}
\* Time that may pass between the two clock reads of check_trigger_cooldown.
Delays == {0, 1}

Displays == {<<1920, 1080>>, <<800, 600>>}
Buttons == {"x1", "left"}
Modes == {"Fullscreen", "Center640", "Center1280", "Custom"}

None == <<>>

\* Option<String>::None
NoKey == "none"

-----------------------------------------------------------------------------
(* Control settings (src/src/config.rs) and the custom rectangle *)

DefaultSettings ==
    [yaw |-> 30, pitch |-> 30, hotkey |-> "x1", toggle |-> FALSE,
     xoff |-> 0, yoff |-> 0, custom |-> <<0, 0, 1280, 720>>]

Settings ==
    { DefaultSettings,
      [yaw |-> 100, pitch |-> 7, hotkey |-> "X1", toggle |-> TRUE,
       xoff |-> 25, yoff |-> -50, custom |-> <<700, 500, 400, 300>>],
      [yaw |-> 30, pitch |-> 200, hotkey |-> "left", toggle |-> TRUE,
       xoff |-> 0, yoff |-> 0, custom |-> <<100, 700, 200, 0>>] }

\* str::to_lowercase on the hotkey names in use
to_lowercase(s) ==
    CASE s = "X1" -> "x1"
      [] s = "LEFT" -> "left"
      [] OTHER -> s

\* InputListener::check_hotkey: the button a name stands for is down
check_hotkey(name, down) ==
    CASE name \in {"x1", "mouse_x1"} -> "x1" \in down
      [] name \in {"x2", "mouse_x2"} -> "x2" \in down
      [] name = "left" -> "left" \in down
      [] name = "right" -> "right" \in down
      [] name = "middle" -> "middle" \in down
      [] OTHER -> FALSE

-----------------------------------------------------------------------------
(* Capture session (src/src/capture.rs) *)

\* Mutant of Min: the larger of the two
Min_larger(a, b) == IF a <= b THEN b ELSE a

Min(a, b) == IF a <= b THEN a ELSE b

\* What DxgiDuplicationApi::acquire_next_frame can answer, followed by what
\* buffer()/buffer_crop() can: a frame, no new frame within the timeout, the handle
\* lost, an invalid size, another platform error, or a frame whose buffer cannot
\* be had (BufferErr).  A lost handle answers AccessLost.  An invalid size is about
\* a crop rectangle: a capture of the whole display cannot be answered by it.
Outcomes == {"Frame", "Timeout", "AccessLost", "InvalidSize", "Other", "BufferErr"}

PlatformOutcomes(dup, kind) ==
    IF dup.lost THEN {"AccessLost"}
    ELSE Outcomes \ ({"AccessLost"} \cup (IF kind = "full" THEN {"InvalidSize"} ELSE {}))

\* Monitor::primary + DxgiDuplicationApi::new_options: a handle on the current
\* display, or a failure
NewDup(d) == [disp |-> d, lost |-> FALSE]

NoDup == [disp |-> <<0, 0>>, lost |-> TRUE]

CreateResults(d) == {[ok |-> FALSE, dup |-> NoDup], [ok |-> TRUE, dup |-> NewDup(d)]}

NoCapture == [dup |-> NoDup, width |-> 0, height |-> 0, rgba |-> <<0, 0>>]

\* ScreenCapture::try_new on a successfully created handle
try_new(dup) ==
    [dup |-> dup, width |-> dup.disp[1], height |-> dup.disp[2], rgba |-> <<0, 0>>]

\* Mutant of recreate: the new handle is taken, width and height are kept
recreate_stale(cap, created) ==
    IF ~created.ok
    THEN [ok |-> FALSE, cap |-> cap]
    ELSE [ok |-> TRUE, cap |-> [cap EXCEPT !.dup = created.dup]]

\* ScreenCapture::recreate: on failure the session is left as it was
recreate(cap, created) ==
    IF ~created.ok
    THEN [ok |-> FALSE, cap |-> cap]
    ELSE [ok |-> TRUE,
          cap |-> [cap EXCEPT !.dup = created.dup,
                              !.width = created.dup.disp[1],
                              !.height = created.dup.disp[2]]]

\* The match on the acquisition result that capture_full and capture_region share;
\* size is the size of the copied buffer, soft the errors answered Ok(false).
acquired(cap, out, created, size, soft) ==
    CASE out = "Frame" ->
            [ret |-> IF size[1] * size[2] > 0 THEN "Ok_true" ELSE "Ok_false",
             cap |-> [cap EXCEPT !.rgba = size], asked |-> TRUE]
      [] out = "BufferErr" -> [ret |-> "Err", cap |-> cap, asked |-> TRUE]
      [] out = "Timeout" -> [ret |-> "Ok_false", cap |-> cap, asked |-> TRUE]
      [] out = "AccessLost" ->
            LET r == recreate(cap, created)
            IN  [ret |-> IF r.ok THEN "Ok_false" ELSE "Err", cap |-> r.cap, asked |-> TRUE]
      [] out \in soft -> [ret |-> "Ok_false", cap |-> cap, asked |-> TRUE]
      [] OTHER -> [ret |-> "Err", cap |-> cap, asked |-> TRUE]

\* ScreenCapture::capture_full
capture_full(cap, out, created) ==
    acquired(cap, out, created, cap.dup.disp, {})

\* u32 arithmetic, on words of WordBits bits: the sum of two words overflows when it
\* does not fit the word.  With overflow checks (a build with debug assertions) the
\* addition panics; without them it wraps.
overflows(a, b) == a + b >= U32

wrapping_add(a, b) == (a + b) % U32

Panicked(cap) == [ret |-> "Panic", cap |-> cap, asked |-> FALSE]

\* Mutant of capture_region: an invalid size is an error like any other
capture_region_hard(cap, x, y, width, height, out, created) ==
    IF width = 0 \/ height = 0
    THEN [ret |-> "Ok_false", cap |-> cap, asked |-> FALSE]
    ELSE IF overflow_checks /\ (overflows(x, width) \/ overflows(y, height))
    THEN Panicked(cap)
    ELSE LET end_x == Min(wrapping_add(x, width), cap.width)
             end_y == Min(wrapping_add(y, height), cap.height)
         IN  IF end_x <= x \/ end_y <= y
             THEN [ret |-> "Ok_false", cap |-> cap, asked |-> FALSE]
             ELSE acquired(cap, out, created, <<end_x - x, end_y - y>>, {})

\* ScreenCapture::capture_region
capture_region(cap, x, y, width, height, out, created) ==
    IF width = 0 \/ height = 0
    THEN [ret |-> "Ok_false", cap |-> cap, asked |-> FALSE]
    ELSE IF overflow_checks /\ (overflows(x, width) \/ overflows(y, height))
    THEN Panicked(cap)
    ELSE LET end_x == Min(wrapping_add(x, width), cap.width)
             end_y == Min(wrapping_add(y, height), cap.height)
         IN  IF end_x <= x \/ end_y <= y
             THEN [ret |-> "Ok_false", cap |-> cap, asked |-> FALSE]
             ELSE acquired(cap, out, created, <<end_x - x, end_y - y>>, {"InvalidSize"})

\* The rectangle a tick asks for (main.rs, match config.mode): the whole display,
\* or a region <<x, y, w, h>>
CenterSquare(n, full_w, full_h) ==
    LET w == Min(n, full_w)
        h == Min(n, full_h)
    IN  [kind |-> "region", rect |-> <<(full_w - w) \div 2, (full_h - h) \div 2, w, h>>]

\* Mutant of RegionRequest: a custom rectangle is asked for as it is clamped, with
\* no fall back to the whole display
RegionRequest_no_fallback(mode, custom, full_w, full_h) ==
    CASE mode = "Fullscreen" -> [kind |-> "full", rect |-> <<0, 0, full_w, full_h>>]
      [] mode = "Center640" -> CenterSquare(Center640, full_w, full_h)
      [] mode = "Center1280" -> CenterSquare(Center1280, full_w, full_h)
      [] mode = "Custom" ->
            [kind |-> "region",
             rect |-> <<custom[1], custom[2],
                        IF custom[1] < full_w THEN Min(custom[3], full_w - custom[1]) ELSE 0,
                        IF custom[2] < full_h THEN Min(custom[4], full_h - custom[2]) ELSE 0>>]

RegionRequest(mode, custom, full_w, full_h) ==
    CASE mode = "Fullscreen" -> [kind |-> "full", rect |-> <<0, 0, full_w, full_h>>]
      [] mode = "Center640" -> CenterSquare(Center640, full_w, full_h)
      [] mode = "Center1280" -> CenterSquare(Center1280, full_w, full_h)
      [] mode = "Custom" ->
            IF custom[3] > 0 /\ custom[4] > 0 /\ custom[1] < full_w /\ custom[2] < full_h
            THEN [kind |-> "region",
                  rect |-> <<custom[1], custom[2],
                             Min(custom[3], full_w - custom[1]),
                             Min(custom[4], full_h - custom[2])>>]
            ELSE [kind |-> "full", rect |-> <<0, 0, full_w, full_h>>]

\* Mutant of skip_tick: a tick is never abandoned
skip_tick_never(did_capture, cap) == FALSE

\* if !did_capture || capture.rgba_buffer.is_empty() { continue; }
skip_tick(did_capture, cap) == ~did_capture \/ cap.rgba[1] * cap.rgba[2] = 0

\* The capture call of one tick: (did_capture, width, height) or an error
tick_capture(req, cap, out, created) ==
    LET r == IF req.kind = "full"
             THEN capture_full(cap, out, created)
             ELSE capture_region(cap, req.rect[1], req.rect[2], req.rect[3], req.rect[4],
                                 out, created)
    IN  [ret |-> r.ret, cap |-> r.cap, asked |-> r.asked, kind |-> req.kind,
         width |-> req.rect[3], height |-> req.rect[4]]

-----------------------------------------------------------------------------
(* Hotkey gate (src/src/input_listener.rs) *)

\* Mutant of as_millis: rounds a started millisecond up
as_millis_ceil(d) == (d + TicksPerMs - 1) \div TicksPerMs

\* Duration::as_millis: whole milliseconds, the rest dropped
as_millis(d) == d \div TicksPerMs

\* Mutant of check_trigger_cooldown: the bound itself is refused
check_trigger_cooldown_strict(last, t, cooldown_ms) == as_millis(t - last) > cooldown_ms

\* InputListener::check_trigger_cooldown, its test: last_trigger read at time t
check_trigger_cooldown(last, t, cooldown_ms) == as_millis(t - last) >= cooldown_ms

\* Mutant of set_last_trigger: the time is taken only when there is a box to aim at
set_last_trigger_if_box(last, t, results) ==
    IF results = <<>> \/ results[1] = <<>> THEN last ELSE t

\* InputListener::check_trigger_cooldown, its write: *self.last_trigger.lock() =
\* Instant::now(), made before the loop looks at the results of the tick
set_last_trigger(last, t, results) == t

\* The gate of the loop (main.rs): is_hotkey_pressed() && check_trigger_cooldown(100)
gate_permits(pressed, last, t) ==
    pressed /\ check_trigger_cooldown(last, t, CooldownMs)

-----------------------------------------------------------------------------
(* Nearest box and pointer delta (src/src/main.rs, the Ok(results) arm) *)

\* Stand-in for f32::MAX: above every distance of the model
F32_MAX == 2147483647

\* screen_center_x, screen_center_y, doubled: capture.width() / 2.0, capture.height() / 2.0
screen_center(cap) == <<cap.width, cap.height>>

\* (center_x, center_y) of a box <<xmin, ymin, xmax, ymax>>, doubled
box_center(det) == <<det[1] + det[3], det[2] + det[4]>>

\* dist, squared and in doubled coordinates
dist(det, c) ==
    (box_center(det)[1] - c[1]) * (box_center(det)[1] - c[1])
    + (box_center(det)[2] - c[2]) * (box_center(det)[2] - c[2])

\* Mutant of closer: a box as near as the nearest so far replaces it
closer_or_equal(d, min_dist) == d <= min_dist

\* if dist < min_dist
closer(d, min_dist) == d < min_dist

RECURSIVE scan_boxes(_, _, _, _)
\* for det in boxes { ... }: acc is (min_dist, closest_box)
scan_boxes(boxes, i, c, acc) ==
    IF i > Len(boxes)
    THEN acc
    ELSE LET d == dist(boxes[i], c)
         IN  scan_boxes(boxes, i + 1, c,
                        IF closer(d, acc.min_dist)
                        THEN [min_dist |-> d, closest_box |-> boxes[i]]
                        ELSE acc)

\* closest_box after the loop; None for no result set or no box
closest(results, c) ==
    IF results = <<>> \/ results[1] = <<>>
    THEN None
    ELSE scan_boxes(results[1], 1, c, [min_dist |-> F32_MAX, closest_box |-> None]).closest_box

\* target_x = x1 + (x2 - x1) * (0.5 + offset), in hundredths
target(lo, hi, off) == 100 * lo + (hi - lo) * (50 + off)

\* dx = target_x - screen_center_x, in two-hundredths
from_center(t, c2) == 2 * t - 100 * c2

\* move_x = dx * sensitivity, in 1/20000
times_sensitivity(d, sens) == d * sens

\* Scale of a product: halves, hundredths of an offset, hundredths of a sensitivity
MoveDen == 2 * 100 * 100

\* Mutant of as_i32: toward minus infinity
as_i32_floor(num, den) == num \div den

\* f32 as i32: toward zero
as_i32(num, den) == IF num >= 0 THEN num \div den ELSE -((-num) \div den)

\* (move_x as i32, move_y as i32) for the chosen box
move_for(b, c, s) ==
    << as_i32(times_sensitivity(from_center(target(b[1], b[3], s.xoff), c[1]), s.yaw), MoveDen),
       as_i32(times_sensitivity(from_center(target(b[2], b[4], s.yoff), c[2]), s.pitch), MoveDen) >>

-----------------------------------------------------------------------------
(* Mutexes (parking_lot::Mutex cells of main.rs, inference.rs, input_listener.rs,
   config.rs) *)

Mutexes ==
    {"model", "results", "conf_threshold", "capture_config", "hotkey_pressed",
     "hotkey_name", "last_trigger", "toggle_state", "captured_key", "logs",
     "config_manager", "config"}

\* The loop worker, the hotkey poller, the hotkey-capture thread, the control surface
LockThreads == {"loop", "poller", "capturer", "ui"}

\* No thread is in an operation, every mutex is free
NoLocks ==
    [owner |-> [m \in Mutexes |-> "free"],
     todo  |-> [th \in LockThreads |-> [op |-> "idle", rest |-> <<>>]]]

\* What a thread does with the mutexes: lock, unlock, or a call made in between
Acq(m) == <<"acq", m>>
Rel(m) == <<"rel", m>>
Call(f) == <<"call", f>>

\* `*cell.lock()` in an expression: the guard is a temporary of the statement
Temp(m) == <<Acq(m), Rel(m)>>

\* `let guard = cell.lock();` kept over the statements of body
Guard(m, body) == <<Acq(m)>> \o body \o <<Rel(m)>>

\* A threshold guard that lives on over the run
read_conf_held(run) == Guard("conf_threshold", run)

\* `let conf = *self.conf_threshold.lock();` and then the run
read_conf_then(run) == Temp("conf_threshold") \o run

\* The model mutex of capture_once: taken before the conversion and held to the
\* return; there is a model or none, and the run returns a result or none
Infers ==
    {Guard("model", <<>>),
     Guard("model", read_conf_then(<<Call("run")>>)),
     Guard("model", read_conf_then(<<Call("run")>>) \o Temp("results"))}

\* The gate of a tick: the pressed cell, the cooldown read, the cooldown write, and
\* the line logged for a move
Gates ==
    {Temp("hotkey_pressed"),
     Temp("hotkey_pressed") \o Temp("last_trigger"),
     Temp("hotkey_pressed") \o Temp("last_trigger") \o Temp("last_trigger"),
     Temp("hotkey_pressed") \o Temp("last_trigger") \o Temp("last_trigger") \o Temp("logs")}

\* The report of a tick, when it is due
Reports == {<<>>, Temp("logs")}

\* One tick of the worker: the region is copied, the frame captured, and then the
\* tick is skipped, or its failure logged, or the frame inferred and gated
Ticks ==
    {Temp("capture_config") \o <<Call("capture")>> \o after :
        after \in {<<>>, Temp("logs")}
                    \cup {inf \o g \o rep : inf \in Infers, g \in Gates, rep \in Reports}}

\* The operations of each thread, by name
Operations(th) ==
    CASE th = "loop" ->
            {[op |-> "init_failed", rest |-> Temp("logs")]}
                \cup {[op |-> "tick", rest |-> t] : t \in Ticks}
      [] th = "poller" ->
            {[op |-> "poll", rest |-> Temp("hotkey_name") \o Temp("hotkey_pressed")]}
      [] th = "capturer" ->
            {[op |-> "capture_key", rest |-> Temp("captured_key")]}
      [] th = "ui" ->
            {[op |-> "log_view", rest |-> Guard("logs", <<>>)],
             [op |-> "load_model", rest |-> Temp("model") \o Temp("logs")],
             [op |-> "start", rest |-> Temp("logs") \o Temp("hotkey_name")
                                            \o Temp("toggle_state")],
             [op |-> "stop", rest |-> Temp("logs")],
             [op |-> "start_capture", rest |-> Temp("captured_key")],
             [op |-> "save", rest |-> Guard("config_manager",
                                            Temp("captured_key")
                                                \o Guard("config", <<Call("write")>>)
                                                \o Temp("logs"))],
             [op |-> "set_confidence", rest |-> Temp("conf_threshold")
                                                    \o Temp("conf_threshold")],
             [op |-> "set_region_mode", rest |-> Guard("capture_config", <<>>)]}

\* A thread begins one of its operations
LockBegin(th) ==
    /\ locks.todo[th].rest = <<>>
    /\ \E o \in Operations(th) : locks' = [locks EXCEPT !.todo[th] = o]
    /\ UNCHANGED <<now, phys, display, is_running, capture_config, ui, model_loaded, logs,
                   runs, listener_running, hotkey_pressed, hotkey_name, last_trigger,
                   toggle_state, press_edges_odd, poller, loop>>
    /\ UNCHANGED <<capvars, overflow_checks, call, conv, meta, eng, conf_threshold,
                   stats_on, sampled>>

\* A thread takes the next step of its operation; a lock is taken only when free
LockStep(th) ==
    /\ locks.todo[th].rest # <<>>
    /\ LET i == Head(locks.todo[th].rest)
           rest == Tail(locks.todo[th].rest)
       IN  \/ /\ i[1] = "acq"
              /\ locks.owner[i[2]] = "free"
              /\ locks' = [locks EXCEPT !.owner[i[2]] = th, !.todo[th].rest = rest]
           \/ /\ i[1] = "rel"
              /\ locks' = [locks EXCEPT !.owner[i[2]] = "free", !.todo[th].rest = rest]
           \/ /\ i[1] = "call"
              /\ locks' = [locks EXCEPT !.todo[th].rest = rest]
    /\ UNCHANGED <<now, phys, display, is_running, capture_config, ui, model_loaded, logs,
                   runs, listener_running, hotkey_pressed, hotkey_name, last_trigger,
                   toggle_state, press_edges_odd, poller, loop>>
    /\ UNCHANGED <<capvars, overflow_checks, call, conv, meta, eng, conf_threshold,
                   stats_on, sampled>>

-----------------------------------------------------------------------------
(* Log (src/src/main.rs, push_log) *)

LogCap == 500

\* A buffer that drops the newest line when full
push_log_keep_oldest(l, level, msg) ==
    LET pushed == Append(l, [level |-> level, msg |-> msg])
    IN  IF Len(pushed) > LogCap THEN SubSeq(pushed, 1, LogCap) ELSE pushed

push_log(l, level, msg) ==
    LET pushed == Append(l, [level |-> level, msg |-> msg])
    IN  IF Len(pushed) > LogCap
        THEN SubSeq(pushed, Len(pushed) - LogCap + 1, Len(pushed))
        ELSE pushed

-----------------------------------------------------------------------------
(* Detector answers *)

\* Boxes the detector may report, in the coordinates of the frame it was given
Boxes ==
    { <<300, 300, 340, 340>>,      \* centre (320, 320)
      <<101, 100, 200, 203>> }     \* centre (150.5, 151.5)

InFrame(b, w, h) == b[3] <= w /\ b[4] <= h

RECURSIVE BoxLists(_, _)
BoxLists(S, n) ==
    IF n = 0 THEN {<<>>}
    ELSE LET shorter == BoxLists(S, n - 1)
         IN  shorter \cup {Append(l, b) : l \in {x \in shorter : Len(x) = n - 1}, b \in S}

\* Answers for a w x h frame built from the boxes of S: no result set, or one
\* result set of at most n boxes
DetectorOutputs(S, n, w, h) ==
    {<<>>} \cup {<<l>> : l \in BoxLists({b \in S : InFrame(b, w, h)}, n)}

\* What one inference call on a w x h frame may return
InferOutputs(w, h) == DetectorOutputs(Boxes, MaxDets, w, h)

-----------------------------------------------------------------------------
(* Threads *)

\* The report interval of the loop, Duration::from_secs(1)
ReportMs == 1000
ReportTicks == ReportMs * TicksPerMs

\* The statistics of the worker before it is spawned, and in specifications that
\* leave the statistics out: frames, capture_total, infer_total, last_report, and
\* of the tick capture_start, capture_ms, infer_start
NoStats ==
    [frames |-> 0, capture_total |-> 0, infer_total |-> 0, last_report |-> -1,
     capture_start |-> -1, capture_ms |-> 0, infer_start |-> -1]

\* let mut last_report = Instant::now(); frames = 0; capture_total = 0.0; infer_total = 0.0
stats_new(t) == [NoStats EXCEPT !.last_report = t]

\* Mutant of accumulate: the capture time of the tick is added twice
accumulate_twice(s, infer_ms) ==
    [s EXCEPT !.frames = @ + 1, !.capture_total = @ + 2 * s.capture_ms,
              !.infer_total = @ + infer_ms]

\* frames += 1; capture_total += capture_ms; infer_total += infer_ms
accumulate(s, infer_ms) ==
    [s EXCEPT !.frames = @ + 1, !.capture_total = @ + s.capture_ms,
              !.infer_total = @ + infer_ms]

\* last_report.elapsed() >= Duration::from_secs(1)
report_due(s, t) == t - s.last_report >= ReportTicks

\* After the report line: frames = 0; capture_total = 0.0; infer_total = 0.0;
\* last_report = Instant::now()
reset(s, t) ==
    [s EXCEPT !.frames = 0, !.capture_total = 0, !.infer_total = 0, !.last_report = t]

\* A loop worker that was never spawned
NoLoop ==
    [pc |-> "none", stats |-> NoStats, snap |-> DefaultSettings, capture |-> NoCapture, center |-> <<0, 0>>,
     mode |-> "none", rect |-> <<0, 0, 0, 0>>, kind |-> "none",
     out |-> "none", created |-> "none", ret |-> "none",
     did_capture |-> FALSE, width |-> 0, height |-> 0,
     results |-> None, gate |-> "none", closest_box |-> None, move |-> None,
     permit_at |-> -1, prev_permit_at |-> -1]

\* The locals of one tick, as they are before the tick's capture
FreshTick(l) ==
    [l EXCEPT !.mode = "none", !.rect = <<0, 0, 0, 0>>, !.kind = "none",
              !.out = "none", !.created = "none", !.ret = "none",
              !.did_capture = FALSE, !.width = 0, !.height = 0,
              !.results = None, !.gate = "none", !.closest_box = None, !.move = None]

NoPoller == [pc |-> "none", sample |-> FALSE]

\* A hotkey-capture thread that was never spawned
NoCapturer == [pc |-> "none"]

-----------------------------------------------------------------------------
(* Pixel conversion (src/src/inference.rs, capture_once) *)

\* Vec::resize(n, 0): the first n elements are kept, new ones are 0
resize(buf, n) == [i \in 1..n |-> IF i <= Len(buf) THEN buf[i] ELSE 0]

\* Mutant of convert_pixel: the first three bytes are copied in their order
convert_pixel_bgr(rgb, rgba, k) ==
    [rgb EXCEPT ![3 * k - 2] = rgba[4 * k - 3],
                ![3 * k - 1] = rgba[4 * k - 2],
                ![3 * k] = rgba[4 * k - 1]]

\* The closure of for_each on the k-th pair of chunks (k from 1):
\* rgb_p[0] = rgba_p[2]; rgb_p[1] = rgba_p[1]; rgb_p[2] = rgba_p[0]
convert_pixel(rgb, rgba, k) ==
    [rgb EXCEPT ![3 * k - 2] = rgba[4 * k - 1],
                ![3 * k - 1] = rgba[4 * k - 2],
                ![3 * k] = rgba[4 * k - 3]]

\* par_chunks_exact_mut(3).zip(par_chunks_exact(4)): as many pairs as the shorter
\* side has whole chunks
zipped_chunks(rgb, rgba) == 1..Min(Len(rgb) \div 3, Len(rgba) \div 4)

NoConv ==
    [pc |-> "none", width |-> 0, height |-> 0, src |-> <<>>, rgba |-> <<>>, rgb |-> <<>>,
     todo |-> {}]

-----------------------------------------------------------------------------
(* Model files (src/src/inference.rs, load_model, infer_yolo_meta,
   parse_version_from_name).  A name is a sequence of characters. *)

UpperCase == <<"A", "B", "C", "D", "E", "F", "G", "H", "I", "J", "K", "L", "M", "N", "O", "P", "Q", "R", "S", "T", "U", "V", "W", "X", "Y", "Z">>

LowerCase == <<"a", "b", "c", "d", "e", "f", "g", "h", "i", "j", "k", "l", "m", "n", "o", "p", "q", "r", "s", "t", "u", "v", "w", "x", "y", "z">>

\* str::to_ascii_lowercase
to_ascii_lowercase(name) ==
    [i \in 1..Len(name) |->
        IF \E k \in 1..26 : UpperCase[k] = name[i]
        THEN LowerCase[CHOOSE k \in 1..26 : UpperCase[k] = name[i]]
        ELSE name[i]]

\* char::is_ascii_digit
is_ascii_digit(c) == c \in {"0", "1", "2", "3", "4", "5", "6", "7", "8", "9"}

digit_value(c) ==
    CASE c = "0" -> 0 [] c = "1" -> 1 [] c = "2" -> 2 [] c = "3" -> 3 [] c = "4" -> 4
      [] c = "5" -> 5 [] c = "6" -> 6 [] c = "7" -> 7 [] c = "8" -> 8 [] c = "9" -> 9

\* str::find: the first position (from 1) where pat begins, 0 for None
find(name, pat) ==
    LET at == {i \in 1..(Len(name) - Len(pat) + 1) : SubSeq(name, i, i + Len(pat) - 1) = pat}
    IN  IF at = {} THEN 0 ELSE CHOOSE i \in at : \A j \in at : i <= j

contains(name, pat) == find(name, pat) > 0

\* chars().take_while(|c| c.is_ascii_digit()).collect()
RECURSIVE take_while_digit(_)
take_while_digit(cs) ==
    IF cs # <<>> /\ is_ascii_digit(Head(cs))
    THEN <<Head(cs)>> \o take_while_digit(Tail(cs))
    ELSE <<>>

\* No version (None, or the Err of a parse)
NoVersion == -1

U8_MAX == 255

\* str::parse::<u8>: the digits are accumulated from the left; the empty string and
\* a value above 255 are errors
RECURSIVE parse_u8_from(_, _)
parse_u8_from(acc, cs) ==
    IF cs = <<>> THEN acc
    ELSE IF 10 * acc + digit_value(Head(cs)) > U8_MAX THEN NoVersion
    ELSE parse_u8_from(10 * acc + digit_value(Head(cs)), Tail(cs))

\* Mutant of parse_u8: the value is reduced modulo 256
parse_u8_wrapping(digits) ==
    IF digits = <<>> THEN NoVersion
    ELSE LET RECURSIVE val(_, _)
             val(acc, cs) == IF cs = <<>> THEN acc
                             ELSE val((10 * acc + digit_value(Head(cs))) % 256, Tail(cs))
         IN  val(0, digits)

parse_u8(digits) == IF digits = <<>> THEN NoVersion ELSE parse_u8_from(0, digits)

\* The while loop over the characters: at every 'v' the digits behind it are taken
\* off the iterator and parsed; the first that parse are the version
RECURSIVE scan_v(_)
scan_v(cs) ==
    IF cs = <<>> THEN NoVersion
    ELSE IF Head(cs) = "v"
         THEN LET digits == take_while_digit(Tail(cs))
                  v == parse_u8(digits)
              IN  IF v # NoVersion THEN v
                  ELSE scan_v(SubSeq(cs, 2 + Len(digits), Len(cs)))
         ELSE scan_v(Tail(cs))

\* parse_version_from_name
parse_version_from_name(name) ==
    LET idx == find(name, <<"y", "o", "l", "o">>)
        v == IF idx > 0
             THEN parse_u8(take_while_digit(SubSeq(name, idx + 4, Len(name))))
             ELSE NoVersion
    IN  IF v # NoVersion THEN v ELSE scan_v(name)

\* infer_yolo_meta on the file stem: the task from the words in the name, the
\* version from the override or else from the name
infer_yolo_meta(stem_raw, version_override) ==
    LET stem == to_ascii_lowercase(stem_raw)
        task == IF contains(stem, <<"s", "e", "g">>)
                     \/ contains(stem, <<"s", "e", "g", "m", "e", "n", "t">>)
                THEN "InstanceSegmentation"
                ELSE IF contains(stem, <<"p", "o", "s", "e">>) \/ contains(stem, <<"k", "p", "t">>)
                THEN "KeypointsDetection"
                ELSE IF contains(stem, <<"o", "b", "b">>)
                THEN "OrientedObjectDetection"
                ELSE IF contains(stem, <<"c", "l", "s">>)
                     \/ contains(stem, <<"c", "l", "a", "s", "s", "i", "f", "y">>)
                THEN "ImageClassification"
                ELSE "ObjectDetection"
        ver == IF version_override # NoVersion THEN version_override
               ELSE parse_version_from_name(stem)
    IN  IF ver # NoVersion
        THEN [ok |-> TRUE, task |-> task, version |-> ver]
        ELSE [ok |-> FALSE, task |-> "none", version |-> NoVersion]

\* A path as load_model looks at it: empty or not, existing or not, a regular file
\* or not, its extension (<<>> for none) and its stem
NoPath == [empty |-> TRUE, exists |-> FALSE, is_file |-> FALSE, ext |-> <<>>, stem |-> <<>>]

\* The checks of load_model before anything is built, in their order: the error,
\* or "none"
validate(path) ==
    CASE path.empty -> "empty"
      [] ~path.exists -> "missing"
      [] ~path.is_file -> "not_file"
      [] to_ascii_lowercase(path.ext) # <<"o", "n", "n", "x">> -> "not_onnx"
      [] OTHER -> "none"

\* Mutant of load_model: a load that fails leaves the engine without a model
load_model_clears(path, version_override, commit_ok, build_ok, model) ==
    LET m == infer_yolo_meta(path.stem, version_override)
    IN  CASE validate(path) # "none" ->
                [ok |-> FALSE, err |-> validate(path), stage |-> "validate", model |-> "none"]
          [] ~m.ok -> [ok |-> FALSE, err |-> "no_version", stage |-> "meta", model |-> "none"]
          [] ~commit_ok -> [ok |-> FALSE, err |-> "commit", stage |-> "commit", model |-> "none"]
          [] ~build_ok -> [ok |-> FALSE, err |-> "build", stage |-> "build", model |-> "none"]
          [] OTHER -> [ok |-> TRUE, err |-> "none", stage |-> "stored", model |-> "new"]

\* InferenceEngine::load_model.  stage is how far the call got: the checks, the
\* version and task, Config::commit, YOLO::build (which allocates the device), the
\* assignment to self.model.  commit_ok and build_ok are what the library answers.
load_model(path, version_override, commit_ok, build_ok, model) ==
    LET m == infer_yolo_meta(path.stem, version_override)
    IN  CASE validate(path) # "none" ->
                [ok |-> FALSE, err |-> validate(path), stage |-> "validate", model |-> model]
          [] ~m.ok -> [ok |-> FALSE, err |-> "no_version", stage |-> "meta", model |-> model]
          [] ~commit_ok -> [ok |-> FALSE, err |-> "commit", stage |-> "commit", model |-> model]
          [] ~build_ok -> [ok |-> FALSE, err |-> "build", stage |-> "build", model |-> model]
          [] OTHER -> [ok |-> TRUE, err |-> "none", stage |-> "stored", model |-> "new"]

\* No call of the engine
NoMeta ==
    [pc |-> "none", stem |-> <<>>, override |-> NoVersion,
     ok |-> FALSE, task |-> "none", version |-> NoVersion,
     path |-> NoPath, commit_ok |-> FALSE, build_ok |-> FALSE, before |-> "none",
     model |-> "none", err |-> "none", stage |-> "none"]

\* No call of capture_once.  conf_at_call and conf_set are history: the threshold
\* when the call began and the values set since.
NoEng ==
    [pc |-> "none", running |-> FALSE, model |-> FALSE, mode |-> "Fullscreen",
     custom |-> <<0, 0, 0, 0>>, cap |-> NoCapture, out |-> "none", ret |-> "none",
     did_capture |-> FALSE, conf_at_call |-> -1, conf_set |-> {}, conf_used |-> -1,
     inferred |-> FALSE, ys |-> <<>>, results |-> <<>>]

\* Mutant of store_results: the cell takes whatever the run returned
store_results_any(cell, ys) == ys

\* if let Some(y) = ys.into_iter().next() { *self.results.lock() = vec![y]; }
store_results(cell, ys) == IF ys # <<>> THEN <<ys[1]>> ELSE cell

\* Mutant of read_conf: the threshold the call began with
read_conf_stale(e) == e.conf_at_call

\* let conf = *self.conf_threshold.lock()
read_conf(e) == conf_threshold

\* InferenceEngine::new: conf_threshold is 0.25; no call is under way
InitLib ==
    /\ conv = NoConv
    /\ meta = NoMeta
    /\ eng = NoEng
    /\ conf_threshold = 25
    /\ stats_on = FALSE
    /\ sampled = "off"
    /\ locks = NoLocks

\* No call of capture_region on its own
NoCall ==
    [pc |-> "none", x |-> 0, y |-> 0, width |-> 0, height |-> 0, out |-> "none",
     cap |-> NoCapture, ret |-> "none", asked |-> FALSE]

Free(threads) == {t \in DOMAIN threads : threads[t].pc \in {"none", "done", "panicked"}}

\* The state after DetectionApp::new; the specifications below start from it, or
\* from a state the control surface and the environment lead to from it without a
\* run: a model loaded, settings read from config.json, time gone by, a button
\* held down.
InitApp(nloops, npollers, loaded, uis, t0, downs) ==
    /\ now = t0
    /\ phys \in downs
    /\ display = <<1920, 1080>>
    /\ is_running = FALSE
    /\ capture_config = "Fullscreen"
    /\ ui \in uis
    /\ model_loaded = loaded
    /\ logs = IF loaded THEN push_log(<<>>, "Info", "model loaded") ELSE <<>>
    /\ runs = 0
    /\ listener_running = FALSE
    /\ hotkey_pressed = FALSE
    /\ hotkey_name = "x1"
    /\ last_trigger = 0
    /\ toggle_state = FALSE
    /\ press_edges_odd = FALSE
    /\ poller = [p \in 1..npollers |-> NoPoller]
    /\ loop = [t \in 1..nloops |-> NoLoop]
    /\ capturing = FALSE
    /\ captured_key = NoKey
    /\ capturing_hotkey = FALSE
    /\ capturer = [c \in 1..MaxCapturers |-> NoCapturer]

InitWith(nloops, npollers, loaded, uis, t0, downs) ==
    /\ InitApp(nloops, npollers, loaded, uis, t0, downs)
    /\ overflow_checks = TRUE
    /\ call = NoCall
    /\ InitLib

Init == InitWith(1, 1, FALSE, {DefaultSettings}, 0, {{}})

-----------------------------------------------------------------------------
(* Environment *)

Advance ==
    /\ \E d \in Steps : now + d <= MaxTime /\ now' = now + d
    /\ UNCHANGED <<phys, display, is_running, capture_config, ui, model_loaded, logs, runs,
                   listener_running, hotkey_pressed, hotkey_name, last_trigger,
                   toggle_state, press_edges_odd, poller, loop>>
    /\ UNCHANGED <<capvars, callvars>>

\* A button goes down or up
Key ==
    /\ \E b \in Buttons : phys' = IF b \in phys THEN phys \ {b} ELSE phys \cup {b}
    /\ UNCHANGED <<now, display, is_running, capture_config, ui, model_loaded, logs, runs,
                   listener_running, hotkey_pressed, hotkey_name, last_trigger,
                   toggle_state, press_edges_odd, poller, loop>>
    /\ UNCHANGED <<capvars, callvars>>

\* The display is reconfigured (or taken over): every open handle is lost
LoseHandle(l) ==
    [l EXCEPT !.capture.dup.lost = TRUE]

DisplayChange ==
    /\ \E d \in Displays : display' = d
    /\ loop' = [t \in DOMAIN loop |-> LoseHandle(loop[t])]
    /\ UNCHANGED <<now, phys, is_running, capture_config, ui, model_loaded, logs, runs,
                   listener_running, hotkey_pressed, hotkey_name, last_trigger,
                   toggle_state, press_edges_odd, poller>>
    /\ UNCHANGED <<capvars, callvars>>

-----------------------------------------------------------------------------
\* InputListener::capture_any_key: the first button found down, in the order
\* left, right, middle, x1, x2
capture_any_key(down) ==
    CASE "left" \in down -> "left"
      [] "right" \in down -> "right"
      [] "middle" \in down -> "middle"
      [] "x1" \in down -> "x1"
      [] "x2" \in down -> "x2"
      [] OTHER -> NoKey

(* Control surface (src/src/main.rs, DetectionApp::update) *)

\* "load model" button, enabled while not running; the load succeeds or fails
LoadModel ==
    /\ ~is_running
    /\ \E ok \in BOOLEAN :
          /\ model_loaded' = (ok \/ model_loaded)
          /\ logs' = push_log(logs, IF ok THEN "Info" ELSE "Error",
                              IF ok THEN "model loaded" ELSE "model load failed")
    /\ UNCHANGED <<now, phys, display, is_running, capture_config, ui, runs,
                   listener_running, hotkey_pressed, hotkey_name, last_trigger,
                   toggle_state, press_edges_odd, poller, loop>>
    /\ UNCHANGED <<capvars, callvars>>

\* "start" button, enabled while not running: snapshot the settings, configure and
\* start the listener, spawn the loop worker
StartClicked ==
    /\ ~is_running
    /\ runs < MaxRuns
    /\ runs' = runs + 1
    /\ is_running' = TRUE
    /\ logs' = push_log(logs, "Info", "start")
    /\ hotkey_name' = to_lowercase(ui.hotkey)
    /\ toggle_state' = FALSE
    /\ press_edges_odd' = FALSE
    /\ listener_running' = TRUE
    /\ IF listener_running
       THEN poller' = poller
       ELSE \E p \in Free(poller) : poller' = [poller EXCEPT ![p] = [pc |-> "run", sample |-> FALSE]]
    /\ \E t \in Free(loop) : loop' = [loop EXCEPT ![t] = [NoLoop EXCEPT !.pc = "init", !.snap = ui]]
    /\ sampled' = IF sampled = "off" THEN "off" ELSE "no"
    /\ locks' = locks
    /\ UNCHANGED <<now, phys, display, capture_config, ui, model_loaded,
                   hotkey_pressed, last_trigger>>
    /\ UNCHANGED <<capvars, overflow_checks, call, libvars>>

\* "stop" button, enabled while running
StopClicked ==
    /\ is_running
    /\ is_running' = FALSE
    /\ logs' = push_log(logs, "Info", "stop")
    /\ UNCHANGED <<now, phys, display, capture_config, ui, model_loaded, runs,
                   listener_running, hotkey_pressed, hotkey_name, last_trigger,
                   toggle_state, press_edges_odd, poller, loop>>
    /\ UNCHANGED <<capvars, callvars>>

\* capture tab: the chosen mode is written to capture_config
SetRegionMode ==
    /\ \E m \in Modes \ {capture_config} : capture_config' = m
    /\ UNCHANGED <<now, phys, display, is_running, ui, model_loaded, logs, runs,
                   listener_running, hotkey_pressed, hotkey_name, last_trigger,
                   toggle_state, press_edges_odd, poller, loop>>
    /\ UNCHANGED <<capvars, callvars>>

\* control tab and capture tab: sliders, trigger type, hotkey, custom rectangle
EditSettings ==
    /\ \E s \in Settings \ {ui} : ui' = s
    /\ UNCHANGED <<now, phys, display, is_running, capture_config, model_loaded, logs, runs,
                   listener_running, hotkey_pressed, hotkey_name, last_trigger,
                   toggle_state, press_edges_odd, poller, loop>>
    /\ UNCHANGED <<capvars, callvars>>

\* hotkey button while no capture is shown: capturing_hotkey = true and
\* InputListener::start_capture, which spawns a capture thread
StartCaptureClicked ==
    /\ ~capturing_hotkey
    /\ capturing_hotkey' = TRUE
    /\ capturing' = TRUE
    /\ captured_key' = NoKey
    /\ \E c \in Free(capturer) : capturer' = [capturer EXCEPT ![c] = [pc |-> "run"]]
    /\ UNCHANGED <<now, phys, display, is_running, capture_config, ui, model_loaded, logs,
                   runs, listener_running, hotkey_pressed, hotkey_name, last_trigger,
                   toggle_state, press_edges_odd, poller, loop, callvars>>

\* hotkey button while a capture is shown: only capturing_hotkey is cleared
CancelCaptureClicked ==
    /\ capturing_hotkey
    /\ capturing_hotkey' = FALSE
    /\ UNCHANGED <<now, phys, display, is_running, capture_config, ui, model_loaded, logs,
                   runs, listener_running, hotkey_pressed, hotkey_name, last_trigger,
                   toggle_state, press_edges_odd, poller, loop, capturing, captured_key,
                   capturer, callvars>>

\* "save control settings" button: a captured key becomes the hotkey and ends
\* the capture (InputListener::stop_capture)
SaveSettings ==
    /\ ui' = [ui EXCEPT !.hotkey = IF captured_key # NoKey THEN captured_key ELSE @]
    /\ capturing' = IF captured_key # NoKey THEN FALSE ELSE capturing
    /\ logs' = push_log(logs, "Info", "settings saved")
    /\ UNCHANGED <<now, phys, display, is_running, capture_config, model_loaded,
                   runs, listener_running, hotkey_pressed, hotkey_name, last_trigger,
                   toggle_state, press_edges_odd, poller, loop, captured_key,
                   capturing_hotkey, capturer, callvars>>

-----------------------------------------------------------------------------
(* Hotkey-capture thread (InputListener::start_capture) *)

\* while capturing.load(): a key that is down is stored and ends the capture;
\* with no key down the thread sleeps and looks again
CapturerStep(c) ==
    /\ capturer[c].pc = "run"
    /\ capturing => capture_any_key(phys) # NoKey
    /\ capturer' = [capturer EXCEPT ![c] = [pc |-> "done"]]
    /\ IF capturing
       THEN captured_key' = capture_any_key(phys) /\ capturing' = FALSE
       ELSE UNCHANGED <<captured_key, capturing>>
    /\ UNCHANGED <<now, phys, display, is_running, capture_config, ui, model_loaded, logs,
                   runs, listener_running, hotkey_pressed, hotkey_name, last_trigger,
                   toggle_state, press_edges_odd, poller, loop, capturing_hotkey, callvars>>

-----------------------------------------------------------------------------
(* Hotkey poller thread (InputListener::start) *)

\* while running.load(): read the name, sample the button
PollerSample(p) ==
    /\ poller[p].pc = "run"
    /\ poller' = [poller EXCEPT ![p] =
                    IF listener_running
                    THEN [pc |-> "write", sample |-> check_hotkey(hotkey_name, phys)]
                    ELSE [pc |-> "done", sample |-> FALSE]]
    /\ UNCHANGED <<now, phys, display, is_running, capture_config, ui, model_loaded, logs,
                   runs, listener_running, hotkey_pressed, hotkey_name, last_trigger,
                   toggle_state, press_edges_odd, loop>>
    /\ UNCHANGED <<capvars, callvars>>

\* *hotkey_pressed.lock() = pressed; sleep
PollerWrite(p) ==
    /\ poller[p].pc = "write"
    /\ hotkey_pressed' = poller[p].sample
    /\ press_edges_odd' = IF ~hotkey_pressed /\ poller[p].sample
                          THEN ~press_edges_odd ELSE press_edges_odd
    /\ poller' = [poller EXCEPT ![p] = [pc |-> "run", sample |-> FALSE]]
    /\ UNCHANGED <<now, phys, display, is_running, capture_config, ui, model_loaded, logs,
                   runs, listener_running, hotkey_name, last_trigger, toggle_state, loop>>
    /\ sampled' = IF sampled = "off" THEN "off" ELSE "yes"
    /\ locks' = locks
    /\ UNCHANGED <<capvars, overflow_checks, call, libvars>>

-----------------------------------------------------------------------------
(* Loop worker thread (src/src/main.rs, the closure given to thread::spawn) *)

\* Mutant of should_break: the flag is not looked at
should_break_never(running) == FALSE

\* if !is_running.load(Ordering::SeqCst) { break; }
should_break(running) == ~running

\* Mutant of stop: the flag is left as it is
stop_noop(running) == running

\* InputListener::stop: self.running.store(false)
stop(running) == FALSE

\* Mutant of Abort: is_running is left set
Abort_keeps_running(t, l, msg) ==
    /\ logs' = push_log(logs, "Error", msg)
    /\ is_running' = is_running
    /\ loop' = [loop EXCEPT ![t] = [l EXCEPT !.pc = "exit"]]
    /\ UNCHANGED listener_running

\* A fatal error in worker t, whose locals are l by then: log it, clear
\* is_running, leave the loop; input_listener.stop() is the thread's next step
Abort(t, l, msg) ==
    /\ logs' = push_log(logs, "Error", msg)
    /\ is_running' = FALSE
    /\ loop' = [loop EXCEPT ![t] = [l EXCEPT !.pc = "exit"]]
    /\ UNCHANGED listener_running

\* ScreenCapture::try_new(0), then the centre of the screen, once
LoopInit(t) ==
    /\ loop[t].pc = "init"
    /\ \E created \in CreateResults(display) :
          IF ~created.ok
          THEN Abort(t, loop[t], "capture init failed")
          ELSE /\ loop' = [loop EXCEPT ![t].pc = "top",
                                       ![t].stats = IF stats_on THEN stats_new(now) ELSE @,
                                       ![t].capture = try_new(created.dup),
                                       ![t].center = screen_center(try_new(created.dup))]
               /\ UNCHANGED <<logs, is_running, listener_running>>
    /\ UNCHANGED <<now, phys, display, capture_config, ui, model_loaded, runs,
                   hotkey_pressed, hotkey_name, last_trigger, toggle_state, press_edges_odd,
                   poller>>
    /\ UNCHANGED <<capvars, callvars>>

\* Top of the loop: leave it when is_running is clear
LoopTop(t) ==
    /\ loop[t].pc = "top"
    /\ loop' = [loop EXCEPT ![t] =
                  IF should_break(is_running)
                  THEN [loop[t] EXCEPT !.pc = "exit"]
                  ELSE [FreshTick(loop[t]) EXCEPT
                           !.pc = "capture",
                           !.stats = IF stats_on THEN [@ EXCEPT !.capture_start = now]
                                     ELSE @]]
    /\ UNCHANGED listener_running
    /\ UNCHANGED <<now, phys, display, is_running, capture_config, ui, model_loaded, logs,
                   runs, hotkey_pressed, hotkey_name, last_trigger, toggle_state, press_edges_odd,
                   poller>>
    /\ UNCHANGED <<capvars, callvars>>

\* let config = *capture_config.lock(); full_w, full_h; match config.mode
TickRequest(t) ==
    RegionRequest(capture_config, loop[t].snap.custom,
                  loop[t].capture.width, loop[t].capture.height)

\* The capture of the tick, for the mode read from capture_config
LoopCapture(t) ==
    /\ loop[t].pc = "capture"
    /\ \E out \in PlatformOutcomes(loop[t].capture.dup, TickRequest(t).kind),
             created \in CreateResults(display) :
          LET r == tick_capture(TickRequest(t), loop[t].capture, out, created)
              seen == [loop[t] EXCEPT
                          !.stats = IF stats_on
                                    THEN [@ EXCEPT
                                             !.capture_ms = now - loop[t].stats.capture_start,
                                             !.infer_start = now]
                                    ELSE @,
                          !.capture = r.cap, !.ret = r.ret, !.kind = r.kind,
                          !.mode = capture_config, !.rect = TickRequest(t).rect,
                          !.out = IF r.asked THEN out ELSE "none",
                          !.created = IF r.asked /\ out = "AccessLost"
                                      THEN (IF created.ok THEN "ok" ELSE "fail")
                                      ELSE "none"]
          IN  CASE r.ret = "Err" -> Abort(t, seen, "capture failed")
                [] r.ret \in {"Ok_true", "Ok_false"} /\ skip_tick(r.ret = "Ok_true", r.cap) ->
                      /\ loop' = [loop EXCEPT ![t] = [seen EXCEPT !.pc = "top"]]
                      /\ UNCHANGED <<logs, is_running, listener_running>>
                [] r.ret \in {"Ok_true", "Ok_false"} /\ ~skip_tick(r.ret = "Ok_true", r.cap) ->
                      /\ loop' = [loop EXCEPT ![t] =
                                     [seen EXCEPT !.pc = "infer", !.did_capture = TRUE,
                                                  !.width = r.width, !.height = r.height]]
                      /\ UNCHANGED <<logs, is_running, listener_running>>
                [] r.ret = "Panic" ->
                      /\ loop' = [loop EXCEPT ![t] = [seen EXCEPT !.pc = "panicked"]]
                      /\ UNCHANGED <<logs, is_running, listener_running>>
    /\ UNCHANGED <<now, phys, display, capture_config, ui, model_loaded, runs,
                   hotkey_pressed, hotkey_name, last_trigger, toggle_state, press_edges_odd,
                   poller>>
    /\ UNCHANGED <<capvars, callvars>>

\* inferencer.infer_with_preprocess(&capture.rgba_buffer, width, height)
LoopInfer(t) ==
    /\ loop[t].pc = "infer"
    /\ IF model_loaded
       THEN /\ \E res \in InferOutputs(loop[t].width, loop[t].height) :
                  loop' = [loop EXCEPT
                              ![t].pc = "gate", ![t].results = res,
                              ![t].stats = IF stats_on
                                           THEN accumulate(@, now - loop[t].stats.infer_start)
                                           ELSE @]
            /\ UNCHANGED <<logs, is_running, listener_running>>
       ELSE Abort(t, loop[t], "inference failed")
    /\ UNCHANGED <<now, phys, display, capture_config, ui, model_loaded, runs,
                   hotkey_pressed, hotkey_name, last_trigger, toggle_state, press_edges_odd,
                   poller>>
    /\ UNCHANGED <<capvars, callvars>>

\* Mutant of control_config: the settings as the control surface shows them now
control_config_live(l) == ui

\* control_config, moved into the closure when the worker is spawned
control_config(l) == l.snap

\* The gate, and behind it the choice of the nearest box and the pointer move; the
\* results end with the Ok arm, and are kept here after a move as the record of
\* what the move was computed from
LoopGate(t) ==
    /\ loop[t].pc = "gate"
    /\ IF gate_permits(hotkey_pressed, last_trigger, now)
       THEN \E d \in {x \in Delays : now + x <= MaxTime} :
               LET box == closest(loop[t].results, loop[t].center)
                   mv == IF box = None THEN None
                         ELSE move_for(box, loop[t].center, control_config(loop[t]))
               IN  /\ now' = now + d
                   /\ last_trigger' = set_last_trigger(last_trigger, now + d, loop[t].results)
                   /\ loop' = [loop EXCEPT ![t].pc = "report", ![t].gate = "permit",
                                           ![t].permit_at = now,
                                           ![t].prev_permit_at = loop[t].permit_at,
                                           ![t].closest_box = box, ![t].move = mv]
                   /\ logs' = IF mv = None THEN logs ELSE push_log(logs, "Debug", "move")
       ELSE /\ loop' = [loop EXCEPT ![t].pc = "report", ![t].gate = "refuse",
                                    ![t].results = None]
            /\ UNCHANGED <<now, last_trigger, logs>>
    /\ UNCHANGED <<phys, display, is_running, capture_config, ui, model_loaded, runs,
                   listener_running, hotkey_pressed, hotkey_name, toggle_state, press_edges_odd,
                   poller>>
    /\ UNCHANGED <<capvars, callvars>>

\* End of the tick: when a second has gone by since last_report the report line
\* is logged and the statistics start again; then the sleep of 1 ms
LoopReport(t) ==
    /\ loop[t].pc = "report"
    /\ IF stats_on /\ report_due(loop[t].stats, now)
       THEN /\ logs' = push_log(logs, "Info", "fps")
            /\ loop' = [loop EXCEPT ![t] =
                           [FreshTick(loop[t]) EXCEPT
                               !.pc = "top", !.stats = reset(loop[t].stats, now)]]
       ELSE /\ logs' = logs
            /\ loop' = [loop EXCEPT ![t] = [FreshTick(loop[t]) EXCEPT !.pc = "top"]]
    /\ UNCHANGED <<now, phys, display, is_running, capture_config, ui, model_loaded,
                   runs, listener_running, hotkey_pressed, hotkey_name, last_trigger,
                   toggle_state, press_edges_odd, poller>>
    /\ UNCHANGED <<capvars, callvars>>

\* After the loop: input_listener.stop(), and the thread ends; its locals are dropped
LoopExit(t) ==
    /\ loop[t].pc = "exit"
    /\ listener_running' = stop(listener_running)
    /\ loop' = [loop EXCEPT ![t] = [NoLoop EXCEPT !.pc = "done"]]
    /\ UNCHANGED <<now, phys, display, is_running, capture_config, ui, model_loaded, logs,
                   runs, hotkey_pressed, hotkey_name, last_trigger, toggle_state,
                   press_edges_odd, poller>>
    /\ UNCHANGED <<capvars, callvars>>

-----------------------------------------------------------------------------
(* Specification *)

Next ==
    \/ Advance
    \/ Key
    \/ DisplayChange
    \/ LoadModel
    \/ StartClicked
    \/ StopClicked
    \/ SetRegionMode
    \/ EditSettings
    \/ \E p \in DOMAIN poller : PollerSample(p)
    \/ \E p \in DOMAIN poller : PollerWrite(p)
    \/ \E t \in DOMAIN loop : LoopInit(t)
    \/ \E t \in DOMAIN loop : LoopTop(t)
    \/ \E t \in DOMAIN loop : LoopCapture(t)
    \/ \E t \in DOMAIN loop : LoopInfer(t)
    \/ \E t \in DOMAIN loop : LoopGate(t)
    \/ \E t \in DOMAIN loop : LoopReport(t)
    \/ \E t \in DOMAIN loop : LoopExit(t)

    \/ StartCaptureClicked
    \/ CancelCaptureClicked
    \/ SaveSettings
    \/ \E c \in DOMAIN capturer : CapturerStep(c)

Spec == Init /\ [][Next]_vars

\* The run loop under the hotkey and the clock: one display, one region mode,
\* one run
InitGate == InitWith(1, 1, TRUE, Settings, 0, {{}})

NextGate ==
    \/ Advance
    \/ Key
    \/ runs = 0 /\ StartClicked
    \/ StopClicked
    \/ \E p \in DOMAIN poller : PollerSample(p)
    \/ \E p \in DOMAIN poller : PollerWrite(p)
    \/ \E t \in DOMAIN loop : LoopInit(t)
    \/ \E t \in DOMAIN loop : LoopTop(t)
    \/ \E t \in DOMAIN loop : LoopCapture(t)
    \/ \E t \in DOMAIN loop : LoopInfer(t)
    \/ \E t \in DOMAIN loop : LoopGate(t)
    \/ \E t \in DOMAIN loop : LoopReport(t)
    \/ \E t \in DOMAIN loop : LoopExit(t)

SpecGate == InitGate /\ [][NextGate]_vars

\* The run loop under display changes and region modes: the hotkey is held down
\* and the cooldown has gone by since the listener was built; one run, which
\* ends on a failure only
InitRegion == InitWith(1, 1, TRUE, Settings, CooldownTicks, {{"x1", "left"}})

NextRegion ==
    \/ DisplayChange
    \/ SetRegionMode
    \/ runs = 0 /\ StartClicked
    \/ \E p \in DOMAIN poller : PollerSample(p)
    \/ \E p \in DOMAIN poller : PollerWrite(p)
    \/ \E t \in DOMAIN loop : LoopInit(t)
    \/ \E t \in DOMAIN loop : LoopTop(t)
    \/ \E t \in DOMAIN loop : LoopCapture(t)
    \/ \E t \in DOMAIN loop : LoopInfer(t)
    \/ \E t \in DOMAIN loop : LoopGate(t)
    \/ \E t \in DOMAIN loop : LoopReport(t)
    \/ \E t \in DOMAIN loop : LoopExit(t)

SpecRegion == InitRegion /\ [][NextRegion]_vars

\* One run next to a control surface on which the settings, the custom rectangle
\* and the region mode are edited and saved; the hotkey is held down, and the run
\* ends on a failure only
InitSettings == InitWith(1, 1, TRUE, {DefaultSettings}, CooldownTicks, {{"x1", "left"}})

NextSettings ==
    \/ EditSettings
    \/ Len(logs) < MaxLog /\ SaveSettings
    \/ SetRegionMode
    \/ runs = 0 /\ StartClicked
    \/ \E p \in DOMAIN poller : PollerSample(p)
    \/ \E p \in DOMAIN poller : PollerWrite(p)
    \/ \E t \in DOMAIN loop : LoopInit(t)
    \/ \E t \in DOMAIN loop : LoopTop(t)
    \/ \E t \in DOMAIN loop : LoopCapture(t)
    \/ \E t \in DOMAIN loop : LoopInfer(t)
    \/ \E t \in DOMAIN loop : LoopGate(t)
    \/ \E t \in DOMAIN loop : LoopReport(t)
    \/ \E t \in DOMAIN loop : LoopExit(t)

SpecSettings == InitSettings /\ [][NextSettings]_vars

\* One run with its statistics, over a clock that covers MaxWindows report
\* intervals in steps of half an interval or just under; at most MaxFrames frames
\* are counted in a window; no hotkey is pressed, and the steps of the hotkey
\* poller, which touch nothing the statistics read, are left out
StatSteps == {ReportTicks \div 2 - 1, ReportTicks \div 2}

Elapse ==
    /\ \E d \in StatSteps : now + d <= MaxWindows * ReportTicks /\ now' = now + d
    /\ UNCHANGED <<phys, display, is_running, capture_config, ui, model_loaded, logs, runs,
                   listener_running, hotkey_pressed, hotkey_name, last_trigger,
                   toggle_state, press_edges_odd, poller, loop>>
    /\ UNCHANGED <<capvars, callvars>>

InitStats ==
    /\ InitApp(1, 1, TRUE, {DefaultSettings}, 0, {{}})
    /\ overflow_checks = TRUE
    /\ call = NoCall
    /\ conv = NoConv
    /\ meta = NoMeta
    /\ eng = NoEng
    /\ conf_threshold = 25
    /\ stats_on = TRUE
    /\ sampled = "off"
    /\ locks = NoLocks

NextStats ==
    \/ Elapse
    \/ runs = 0 /\ StartClicked
    \/ \E t \in DOMAIN loop : LoopInit(t)
    \/ \E t \in DOMAIN loop : LoopTop(t)
    \/ \E t \in DOMAIN loop : LoopCapture(t)
    \/ \E t \in DOMAIN loop : loop[t].stats.frames < MaxFrames /\ LoopInfer(t)
    \/ \E t \in DOMAIN loop : LoopGate(t)
    \/ \E t \in DOMAIN loop : LoopReport(t)
    \/ \E t \in DOMAIN loop : LoopExit(t)

SpecStats == InitStats /\ [][NextStats]_vars

\* One worker slot under the load, start and stop buttons, from no model loaded
InitLoad == InitWith(1, 1, FALSE, {DefaultSettings}, 0, {{}})

NextLoad ==
    \/ Len(logs) < MaxLog /\ LoadModel
    \/ StartClicked
    \/ StopClicked
    \/ \E p \in DOMAIN poller : PollerSample(p)
    \/ \E p \in DOMAIN poller : PollerWrite(p)
    \/ \E t \in DOMAIN loop : LoopInit(t)
    \/ \E t \in DOMAIN loop : LoopTop(t)
    \/ \E t \in DOMAIN loop : LoopCapture(t)
    \/ \E t \in DOMAIN loop : LoopInfer(t)
    \/ \E t \in DOMAIN loop : LoopGate(t)
    \/ \E t \in DOMAIN loop : LoopReport(t)
    \/ \E t \in DOMAIN loop : LoopExit(t)

SpecLoad == InitLoad /\ [][NextLoad]_vars

\* Runs started and stopped from the control surface with a model loaded: two
\* worker slots and two poller slots, no button held; a run is started while the
\* log has fewer than MaxLog lines
InitRun == InitWith(2, 2, TRUE, {DefaultSettings}, 0, {{}})

NextRun ==
    \/ Len(logs) < MaxLog /\ StartClicked
    \/ StopClicked
    \/ \E p \in DOMAIN poller : PollerSample(p)
    \/ \E p \in DOMAIN poller : PollerWrite(p)
    \/ \E t \in DOMAIN loop : LoopInit(t)
    \/ \E t \in DOMAIN loop : LoopTop(t)
    \/ \E t \in DOMAIN loop : LoopCapture(t)
    \/ \E t \in DOMAIN loop : LoopInfer(t)
    \/ \E t \in DOMAIN loop : LoopGate(t)
    \/ \E t \in DOMAIN loop : LoopReport(t)
    \/ \E t \in DOMAIN loop : LoopExit(t)

SpecRun == InitRun /\ [][NextRun]_vars

\* One step of worker thread t, of poller thread p
LoopStep(t) ==
    \/ LoopInit(t) \/ LoopTop(t) \/ LoopCapture(t) \/ LoopInfer(t)
    \/ LoopGate(t) \/ LoopReport(t) \/ LoopExit(t)

PollerStep(p) == PollerSample(p) \/ PollerWrite(p)

\* The same runs with every thread scheduled again and again: a capture call
\* returns within its timeout, an inference call returns, a sleep ends
SpecRunFair ==
    /\ SpecRun
    /\ \A t \in 1..2 : WF_vars(LoopStep(t))
    /\ \A p \in 1..2 : WF_vars(PollerStep(p))

\* Runs started and stopped in one worker slot and one poller slot while buttons
\* go down and up, the cooldown gone by since the listener was built; the writes
\* of the poller since the last start are recorded
InitStale ==
    /\ InitApp(1, 1, TRUE, {DefaultSettings}, CooldownTicks, {{}, {"x1"}})
    /\ overflow_checks = TRUE
    /\ call = NoCall
    /\ conv = NoConv
    /\ meta = NoMeta
    /\ eng = NoEng
    /\ conf_threshold = 25
    /\ stats_on = FALSE
    /\ sampled = "no"
    /\ locks = NoLocks

NextStale ==
    \/ Key
    \/ StartClicked
    \/ StopClicked
    \/ \E p \in DOMAIN poller : PollerSample(p)
    \/ \E p \in DOMAIN poller : PollerWrite(p)
    \/ \E t \in DOMAIN loop : LoopInit(t)
    \/ \E t \in DOMAIN loop : LoopTop(t)
    \/ \E t \in DOMAIN loop : LoopCapture(t)
    \/ \E t \in DOMAIN loop : LoopInfer(t)
    \/ \E t \in DOMAIN loop : LoopGate(t)
    \/ \E t \in DOMAIN loop : LoopReport(t)
    \/ \E t \in DOMAIN loop : LoopExit(t)

SpecStale == InitStale /\ [][NextStale]_vars

\* The hotkey capture of the control tab next to one run: buttons go down and up
InitKeys == InitWith(1, 1, TRUE, {DefaultSettings}, 0, {{}})

NextKeys ==
    \/ Key
    \/ StartCaptureClicked
    \/ CancelCaptureClicked
    \/ Len(logs) < MaxLog /\ SaveSettings
    \/ \E c \in DOMAIN capturer : CapturerStep(c)
    \/ runs = 0 /\ StartClicked
    \/ \E p \in DOMAIN poller : PollerSample(p)
    \/ \E p \in DOMAIN poller : PollerWrite(p)
    \/ \E t \in DOMAIN loop : LoopInit(t)
    \/ \E t \in DOMAIN loop : LoopTop(t)
    \/ \E t \in DOMAIN loop : LoopCapture(t)
    \/ \E t \in DOMAIN loop : LoopInfer(t)
    \/ \E t \in DOMAIN loop : LoopGate(t)
    \/ \E t \in DOMAIN loop : LoopReport(t)
    \/ \E t \in DOMAIN loop : LoopExit(t)

SpecKeys == InitKeys /\ [][NextKeys]_vars

\* One tick at its gate, the hotkey held and the cooldown gone by, on either
\* display in full-screen mode, for every answer the detector may have given out
\* of a larger set of boxes: the state LoopInit, LoopTop, LoopCapture and
\* LoopInfer leave behind.
AimBoxes ==
    Boxes \cup { <<440, 437, 539, 540>>,     \* centre (489.5, 488.5)
                 <<1720, 877, 1819, 980>>,   \* centre (1769.5, 928.5): as far from
                                             \* (960, 540) as (150.5, 151.5)
                 <<940, 520, 980, 560>>,     \* centre (960, 540)
                 <<380, 280, 420, 320>>,     \* centre (400, 300)
                 <<460, 260, 500, 300>> }    \* centre (480, 280): as far from (400, 300)
                                             \* as (320, 320)

AtGate(d, s, res) ==
    LET cap == [try_new(NewDup(d)) EXCEPT !.rgba = d]
    IN  [NoLoop EXCEPT !.pc = "gate", !.snap = s, !.capture = cap,
                       !.center = screen_center(cap),
                       !.mode = "Fullscreen", !.rect = <<0, 0, d[1], d[2]>>,
                       !.kind = "full", !.out = "Frame", !.ret = "Ok_true",
                       !.did_capture = TRUE, !.width = d[1], !.height = d[2],
                       !.results = res]

InitAim ==
    /\ now = CooldownTicks
    /\ phys = {"x1", "left"}
    /\ display \in Displays
    /\ is_running = TRUE
    /\ capture_config = "Fullscreen"
    /\ ui \in Settings
    /\ model_loaded = TRUE
    /\ logs = push_log(push_log(<<>>, "Info", "model loaded"), "Info", "start")
    /\ runs = 1
    /\ listener_running = TRUE
    /\ hotkey_pressed = TRUE
    /\ hotkey_name = to_lowercase(ui.hotkey)
    /\ last_trigger = 0
    /\ toggle_state = FALSE
    /\ press_edges_odd = TRUE
    /\ poller = [p \in 1..1 |-> [pc |-> "run", sample |-> FALSE]]
    /\ capturing = FALSE
    /\ captured_key = NoKey
    /\ capturing_hotkey = FALSE
    /\ capturer = [c \in 1..MaxCapturers |-> NoCapturer]
    /\ overflow_checks = TRUE
    /\ call = NoCall
    /\ InitLib
    /\ \E res \in DetectorOutputs(AimBoxes, MaxLen, display[1], display[2]) :
          loop = [t \in 1..1 |-> AtGate(display, ui, res)]

NextAim ==
    \/ \E t \in DOMAIN loop : LoopGate(t)
    \/ \E t \in DOMAIN loop : LoopReport(t)

SpecAim == InitAim /\ [][NextAim]_vars

\* Region requests: a worker about to capture, on displays as small as 500 x 400
\* (smaller than both centre squares), with every mode and with custom rectangles
\* that lie inside the display, stick out of it, start outside it or are empty.
ClampDisplays == Displays \cup {<<500, 400>>}

ClampRects ==
    {<<x, y, w, h>> : x \in {0, 100, 499, 799, 1919, 2000}, y \in {0, 399, 1079, 1100},
                      w \in {0, 1, 400, 1280, 4000}, h \in {0, 1, 300, 4000}}

AtCapture(d, s) ==
    LET cap == try_new(NewDup(d))
    IN  [NoLoop EXCEPT !.pc = "capture", !.snap = s, !.capture = cap,
                       !.center = screen_center(cap)]

InitClamp ==
    /\ now = 0
    /\ phys = {}
    /\ display \in ClampDisplays
    /\ is_running = TRUE
    /\ capture_config \in Modes
    /\ \E r \in ClampRects : ui = [DefaultSettings EXCEPT !.custom = r]
    /\ model_loaded = TRUE
    /\ logs = push_log(push_log(<<>>, "Info", "model loaded"), "Info", "start")
    /\ runs = 1
    /\ listener_running = TRUE
    /\ hotkey_pressed = FALSE
    /\ hotkey_name = to_lowercase(ui.hotkey)
    /\ last_trigger = 0
    /\ toggle_state = FALSE
    /\ press_edges_odd = FALSE
    /\ poller = [p \in 1..1 |-> [pc |-> "run", sample |-> FALSE]]
    /\ capturing = FALSE
    /\ captured_key = NoKey
    /\ capturing_hotkey = FALSE
    /\ capturer = [c \in 1..MaxCapturers |-> NoCapturer]
    /\ overflow_checks \in BOOLEAN
    /\ call = NoCall
    /\ InitLib
    /\ loop = [t \in 1..1 |-> AtCapture(display, ui)]

NextClamp ==
    \/ \E t \in DOMAIN loop : LoopCapture(t)
    \/ \E t \in DOMAIN loop : LoopInfer(t)

SpecClamp == InitClamp /\ [][NextClamp]_vars

\* capture_region called on its own, with arguments from the whole range of the
\* word: small ones, the display's sizes and the largest values of the word
WordValues == {0, 1, 640, 1079, 1080, 1919, 1920, U32 - 1920, U32 - 2, U32 - 1}

CallCaptureRegion ==
    /\ call.pc = "args"
    /\ \E out \in PlatformOutcomes(call.cap.dup, "region"),
             created \in CreateResults(display) :
          LET r == capture_region(call.cap, call.x, call.y, call.width, call.height,
                                  out, created)
          IN  call' = [call EXCEPT !.pc = "returned", !.cap = r.cap, !.ret = r.ret,
                                   !.asked = r.asked,
                                   !.out = IF r.asked THEN out ELSE "none"]
    /\ UNCHANGED <<now, phys, display, is_running, capture_config, ui, model_loaded, logs,
                   runs, listener_running, hotkey_pressed, hotkey_name, last_trigger,
                   toggle_state, press_edges_odd, poller, loop, capvars, overflow_checks,
                   libvars, sampled, locks>>

InitWord ==
    /\ now = 0
    /\ phys = {}
    /\ display \in Displays
    /\ is_running = FALSE
    /\ capture_config = "Fullscreen"
    /\ ui = DefaultSettings
    /\ model_loaded = FALSE
    /\ logs = <<>>
    /\ runs = 0
    /\ listener_running = FALSE
    /\ hotkey_pressed = FALSE
    /\ hotkey_name = "x1"
    /\ last_trigger = 0
    /\ toggle_state = FALSE
    /\ press_edges_odd = FALSE
    /\ poller = [p \in 1..1 |-> NoPoller]
    /\ loop = [t \in 1..1 |-> NoLoop]
    /\ capturing = FALSE
    /\ captured_key = NoKey
    /\ capturing_hotkey = FALSE
    /\ capturer = [c \in 1..MaxCapturers |-> NoCapturer]
    /\ overflow_checks \in BOOLEAN
    /\ InitLib
    /\ \E x \in WordValues, y \in WordValues, w \in WordValues, h \in WordValues :
          call = [NoCall EXCEPT !.pc = "args", !.x = x, !.y = y, !.width = w, !.height = h,
                                !.cap = try_new(NewDup(display))]

NextWord == CallCaptureRegion

SpecWord == InitWord /\ [][NextWord]_vars

\* The conversion of one frame.  rgb_buffer is resized to width * height * 3, then
\* the pairs of chunks are handed to the thread pool: each pair is done once, in
\* any order.
ConvertResize ==
    /\ conv.pc = "args"
    /\ LET rgb == resize(conv.rgb, conv.width * conv.height * 3)
       IN  conv' = [conv EXCEPT !.pc = "run", !.rgb = rgb,
                                !.todo = zipped_chunks(rgb, conv.rgba)]
    /\ UNCHANGED <<now, phys, display, is_running, capture_config, ui, model_loaded, logs,
                   runs, listener_running, hotkey_pressed, hotkey_name, last_trigger,
                   toggle_state, press_edges_odd, poller, loop, capvars, overflow_checks,
                   call, meta, eng, conf_threshold, stats_on, sampled, locks>>

ConvertPixel ==
    /\ conv.pc = "run"
    /\ \E k \in conv.todo :
          conv' = [conv EXCEPT !.rgb = convert_pixel(conv.rgb, conv.rgba, k),
                               !.todo = conv.todo \ {k},
                               !.pc = IF conv.todo = {k} THEN "done" ELSE "run"]
    /\ UNCHANGED <<now, phys, display, is_running, capture_config, ui, model_loaded, logs,
                   runs, listener_running, hotkey_pressed, hotkey_name, last_trigger,
                   toggle_state, press_edges_odd, poller, loop, capvars, overflow_checks,
                   call, meta, eng, conf_threshold, stats_on, sampled, locks>>

\* Pixels <<B, G, R, A>> a captured buffer is made of, and what an earlier frame
\* may have left in rgb_buffer
Pixels == {<<10, 20, 30, 255>>, <<0, 128, 255, 0>>}

RECURSIVE Flatten(_)
Flatten(ps) == IF ps = <<>> THEN <<>> ELSE Head(ps) \o Flatten(Tail(ps))

Leftovers == {<<>>, [i \in 1..(3 * MaxSide * MaxSide + 3) |-> 99]}

InitConv ==
    /\ InitApp(1, 1, TRUE, {DefaultSettings}, 0, {{}})
    /\ overflow_checks = TRUE
    /\ call = NoCall
    /\ meta = NoMeta
    /\ eng = NoEng
    /\ conf_threshold = 25
    /\ stats_on = FALSE
    /\ sampled = "off"
    /\ locks = NoLocks
    /\ \E w \in 1..MaxSide, h \in 1..MaxSide, old \in Leftovers :
          \E ps \in [1..(w * h) -> Pixels] :
             conv = [NoConv EXCEPT !.pc = "args", !.width = w, !.height = h,
                                   !.src = Flatten(ps), !.rgba = Flatten(ps), !.rgb = old]

NextConv ==
    \/ ConvertResize
    \/ ConvertPixel

SpecConv == InitConv /\ [][NextConv]_vars

\* infer_yolo_meta called on its own.  File stems are put together from words that
\* carry the markers, digits that fit a u8 or not, upper case, and task words.
Tokens ==
    { <<"y", "o", "l", "o">>, <<"v">>, <<"V", "8">>, <<"1", "1">>, <<"8">>, <<"3", "0", "0">>,
      <<"n">>, <<"m", "o", "d", "e", "l", "_", "v">>, <<"_", "s", "e", "g">>,
      <<"p", "o", "s", "e">> }

Stems == UNION {{Flatten(ts) : ts \in [1..n -> Tokens]} : n \in 0..MaxTokens}

Overrides == {NoVersion, 8, 26}

CallInferYoloMeta ==
    /\ meta.pc = "args"
    /\ LET r == infer_yolo_meta(meta.stem, meta.override)
       IN  meta' = [meta EXCEPT !.pc = "returned", !.ok = r.ok, !.task = r.task,
                                !.version = r.version]
    /\ UNCHANGED <<now, phys, display, is_running, capture_config, ui, model_loaded, logs,
                   runs, listener_running, hotkey_pressed, hotkey_name, last_trigger,
                   toggle_state, press_edges_odd, poller, loop, capvars, overflow_checks,
                   call, conv, eng, conf_threshold, stats_on, sampled, locks>>

InitMeta ==
    /\ InitApp(1, 1, FALSE, {DefaultSettings}, 0, {{}})
    /\ overflow_checks = TRUE
    /\ call = NoCall
    /\ conv = NoConv
    /\ eng = NoEng
    /\ conf_threshold = 25
    /\ stats_on = FALSE
    /\ sampled = "off"
    /\ locks = NoLocks
    /\ \E st \in Stems, o \in Overrides :
          meta = [NoMeta EXCEPT !.pc = "args", !.stem = st, !.override = o]

NextMeta == CallInferYoloMeta

SpecMeta == InitMeta /\ [][NextMeta]_vars

\* load_model called on its own: on an engine that never loaded a model or holds
\* an old one, with every kind of path, and with a library that commits and
\* builds or fails to
Exts == {<<>>, <<"o", "n", "n", "x">>, <<"O", "N", "N", "X">>, <<"t", "x", "t">>}

LoadStems ==
    { <<"y", "o", "l", "o", "1", "1", "n">>,
      <<"m", "o", "d", "e", "l", "_", "v", "8", "_", "s", "e", "g">>,
      <<"b", "e", "s", "t">> }

\* The empty path, and paths that name nothing, a directory or a regular file
Paths ==
    {NoPath}
    \cup {p \in [empty : {FALSE}, exists : BOOLEAN, is_file : BOOLEAN, ext : Exts,
                  stem : LoadStems] : p.is_file => p.exists}

CallLoadModel ==
    /\ meta.pc = "load"
    /\ LET r == load_model(meta.path, meta.override, meta.commit_ok, meta.build_ok, meta.before)
       IN  meta' = [meta EXCEPT !.pc = "loaded", !.ok = r.ok, !.err = r.err,
                                !.stage = r.stage, !.model = r.model]
    /\ UNCHANGED <<now, phys, display, is_running, capture_config, ui, model_loaded, logs,
                   runs, listener_running, hotkey_pressed, hotkey_name, last_trigger,
                   toggle_state, press_edges_odd, poller, loop, capvars, overflow_checks,
                   call, conv, eng, conf_threshold, stats_on, sampled, locks>>

InitLoadModel ==
    /\ InitApp(1, 1, FALSE, {DefaultSettings}, 0, {{}})
    /\ overflow_checks = TRUE
    /\ call = NoCall
    /\ conv = NoConv
    /\ eng = NoEng
    /\ conf_threshold = 25
    /\ stats_on = FALSE
    /\ sampled = "off"
    /\ locks = NoLocks
    /\ \E p \in Paths, o \in Overrides, c \in BOOLEAN, b \in BOOLEAN, m \in {"none", "old"} :
          meta = [NoMeta EXCEPT !.pc = "load", !.path = p, !.override = o, !.commit_ok = c,
                                !.build_ok = b, !.before = m, !.model = m]

NextLoadModel == CallLoadModel

SpecLoadModel == InitLoadModel /\ [][NextLoadModel]_vars

\* capture_once called on its own, next to the confidence slider of the control
\* surface.  Thresholds are in hundredths.
ConfValues == {0, 25, 60, 100}

\* The slider of the inference tab, range 0.0..=1.0, moved to another value
SetConfidence ==
    /\ \E c \in ConfValues \ {conf_threshold} :
          /\ conf_threshold' = c
          /\ eng' = IF eng.pc \in {"none", "args", "returned"} THEN eng
                    ELSE [eng EXCEPT !.conf_set = @ \cup {c}]
    /\ UNCHANGED <<now, phys, display, is_running, capture_config, ui, model_loaded, logs,
                   runs, listener_running, hotkey_pressed, hotkey_name, last_trigger,
                   toggle_state, press_edges_odd, poller, loop, capvars, overflow_checks,
                   call, conv, meta, stats_on, sampled, locks>>

\* capture_once up to the model lock: the is_running check, the capture for the
\* mode of capture_config, the early return without a frame; with a frame and no
\* model the if-let is skipped and the statistics of a captured frame are returned
EngCapture ==
    /\ eng.pc = "args"
    /\ LET began == [eng EXCEPT !.conf_at_call = conf_threshold]
           req == RegionRequest(eng.mode, eng.custom, eng.cap.width, eng.cap.height)
       IN  IF ~eng.running
           THEN eng' = [began EXCEPT !.pc = "returned", !.ret = "Ok"]
           ELSE \E out \in PlatformOutcomes(eng.cap.dup, req.kind),
                   created \in CreateResults(display) :
                   LET r == tick_capture(req, eng.cap, out, created)
                       seen == [began EXCEPT !.cap = r.cap,
                                             !.out = IF r.asked THEN out ELSE "none"]
                       ok == r.ret \in {"Ok_true", "Ok_false"}
                       skip == skip_tick(r.ret = "Ok_true", r.cap)
                   IN  CASE ok /\ ~skip /\ eng.model ->
                                eng' = [seen EXCEPT !.pc = "convert"]
                         [] ok /\ ~skip /\ ~eng.model ->
                                eng' = [seen EXCEPT !.pc = "returned", !.ret = "Ok",
                                                    !.did_capture = TRUE]
                         [] ok /\ skip ->
                                eng' = [seen EXCEPT !.pc = "returned", !.ret = "Ok"]
                         [] OTHER ->
                                eng' = [seen EXCEPT !.pc = "returned", !.ret = r.ret]
    /\ UNCHANGED <<now, phys, display, is_running, capture_config, ui, model_loaded, logs,
                   runs, listener_running, hotkey_pressed, hotkey_name, last_trigger,
                   toggle_state, press_edges_odd, poller, loop, capvars, overflow_checks,
                   call, conv, meta, conf_threshold, stats_on, sampled, locks>>

\* The conversion, Image::from_u8s (which may fail), then the threshold is read
\* and given to the model
EngReadConf ==
    /\ eng.pc = "convert"
    /\ \E image_ok \in BOOLEAN :
          eng' = IF image_ok
                 THEN [eng EXCEPT !.pc = "run", !.conf_used = read_conf(eng)]
                 ELSE [eng EXCEPT !.pc = "returned", !.ret = "Err"]
    /\ UNCHANGED <<now, phys, display, is_running, capture_config, ui, model_loaded, logs,
                   runs, listener_running, hotkey_pressed, hotkey_name, last_trigger,
                   toggle_state, press_edges_odd, poller, loop, capvars, overflow_checks,
                   call, conv, meta, conf_threshold, stats_on, sampled, locks>>

\* What model.run may answer: an error, or a list of at most MaxYs results
Ys == {"y1", "y2"}

RunResults ==
    {[ok |-> FALSE, ys |-> <<>>]} \cup
    {[ok |-> TRUE, ys |-> ys] : ys \in UNION {[1..n -> Ys] : n \in 0..MaxYs}}

\* model.run, which may fail; the first result is stored in the shared cell and
\* the statistics are returned
EngRun ==
    /\ eng.pc = "run"
    /\ \E run \in RunResults :
          eng' = IF run.ok
                 THEN [eng EXCEPT !.pc = "returned", !.ret = "Ok", !.did_capture = TRUE,
                                  !.inferred = TRUE, !.ys = run.ys,
                                  !.results = store_results(@, run.ys)]
                 ELSE [eng EXCEPT !.pc = "returned", !.ret = "Err"]
    /\ UNCHANGED <<now, phys, display, is_running, capture_config, ui, model_loaded, logs,
                   runs, listener_running, hotkey_pressed, hotkey_name, last_trigger,
                   toggle_state, press_edges_odd, poller, loop, capvars, overflow_checks,
                   call, conv, meta, conf_threshold, stats_on, sampled, locks>>

InitEngine ==
    /\ InitApp(1, 1, FALSE, {DefaultSettings}, 0, {{}})
    /\ overflow_checks = TRUE
    /\ call = NoCall
    /\ conv = NoConv
    /\ meta = NoMeta
    /\ conf_threshold = 25
    /\ stats_on = FALSE
    /\ sampled = "off"
    /\ locks = NoLocks
    /\ \E r \in BOOLEAN, m \in BOOLEAN, md \in Modes :
          eng = [NoEng EXCEPT !.pc = "args", !.running = r, !.model = m, !.mode = md,
                              !.custom = <<700, 500, 400, 300>>,
                              !.cap = try_new(NewDup(display))]

NextEngine ==
    \/ SetConfidence
    \/ EngCapture
    \/ EngReadConf
    \/ EngRun

SpecEngine == InitEngine /\ [][NextEngine]_vars

\* capture_once called again and again on one engine: between two calls the
\* caller may set or clear is_running, choose a region mode and load a model
EngCall ==
    /\ eng.pc = "returned"
    /\ \E r \in BOOLEAN, m \in {eng.model, TRUE}, md \in {"Fullscreen", "Custom"} :
          eng' = [NoEng EXCEPT !.pc = "args", !.running = r, !.model = m, !.mode = md,
                              !.custom = eng.custom, !.cap = eng.cap,
                              !.results = eng.results]
    /\ UNCHANGED <<now, phys, display, is_running, capture_config, ui, model_loaded, logs,
                   runs, listener_running, hotkey_pressed, hotkey_name, last_trigger,
                   toggle_state, press_edges_odd, poller, loop, capvars, overflow_checks,
                   call, conv, meta, conf_threshold, stats_on, sampled, locks>>

NextResults ==
    \/ EngCall
    \/ EngCapture
    \/ EngReadConf
    \/ EngRun

SpecResults == InitEngine /\ [][NextResults]_vars

\* The ticks of one run of the loop, the hotkey held down over a running clock,
\* and next to them one call of capture_once
InitTick ==
    /\ InitApp(1, 1, TRUE, {DefaultSettings}, CooldownTicks, {{"x1", "left"}})
    /\ overflow_checks = TRUE
    /\ call = NoCall
    /\ conv = NoConv
    /\ meta = NoMeta
    /\ conf_threshold = 25
    /\ stats_on = FALSE
    /\ sampled = "off"
    /\ locks = NoLocks
    /\ \E r \in BOOLEAN, m \in BOOLEAN :
          eng = [NoEng EXCEPT !.pc = "args", !.running = r, !.model = m,
                              !.cap = try_new(NewDup(display))]

NextTick ==
    \/ Advance
    \/ runs = 0 /\ StartClicked
    \/ \E p \in DOMAIN poller : PollerSample(p)
    \/ \E p \in DOMAIN poller : PollerWrite(p)
    \/ \E t \in DOMAIN loop : LoopInit(t)
    \/ \E t \in DOMAIN loop : LoopTop(t)
    \/ \E t \in DOMAIN loop : LoopCapture(t)
    \/ \E t \in DOMAIN loop : LoopInfer(t)
    \/ \E t \in DOMAIN loop : LoopGate(t)
    \/ \E t \in DOMAIN loop : LoopReport(t)
    \/ \E t \in DOMAIN loop : LoopExit(t)
    \/ EngCapture
    \/ EngReadConf
    \/ EngRun

SpecTick == InitTick /\ [][NextTick]_vars

-----------------------------------------------------------------------------
(* Claims on the hotkey gate, checked under SpecGate *)

HoldRun(t) == ~loop[t].snap.toggle
ToggleRun(t) == loop[t].snap.toggle

\* The step of worker t that evaluates the gate
GateStep(t) == loop[t].pc = "gate" /\ loop'[t].pc = "report"

\* A worker whose tick has just been through the gate
Gated(t) == loop[t].pc = "report"

\* C1: two permits of the gate are never less than cooldown_ms apart, however
\* many ticks fall between them: the time of a permit minus the time of the
\* permit before it is at least the cooldown.
C1_AtMostOncePerWindow ==
    \A t \in DOMAIN loop :
        loop[t].prev_permit_at >= 0
            => loop[t].permit_at - loop[t].prev_permit_at >= CooldownTicks

\* C1 witness: a second permit, exactly one cooldown after the first, the key
\* still held.
C1_Witness ==
    \E t \in DOMAIN loop :
        /\ Gated(t) /\ loop[t].gate = "permit" /\ hotkey_pressed
        /\ loop[t].prev_permit_at >= 0
        /\ loop[t].permit_at - loop[t].prev_permit_at = CooldownTicks

\* C2: in a Hold run a tick is permitted exactly when pressed is true and at
\* least cooldown_ms lie between last_fire and the tick; a permit sets last_fire
\* to the time it is taken at, a refusal leaves last_fire as it was.
C2_HoldGate ==
    [][\A t \in DOMAIN loop :
          (GateStep(t) /\ HoldRun(t)) =>
              /\ (loop'[t].gate = "permit")
                    <=> (hotkey_pressed /\ now - last_trigger >= CooldownTicks)
              /\ loop'[t].gate = "permit" => last_trigger' = now'
              /\ loop'[t].gate # "permit" => last_trigger' = last_trigger]_vars

\* C2 witness: a Hold run permitted a tick at exactly one cooldown after last_fire.
C2_Witness ==
    \E t \in DOMAIN loop :
        /\ Gated(t) /\ HoldRun(t) /\ loop[t].gate = "permit"
        /\ loop[t].permit_at = CooldownTicks
        /\ last_trigger = now

\* C3, as claimed: in a Toggle run a tick is permitted exactly when toggle_on is
\* true and the cooldown has elapsed, whether or not the key is still held.
C3_ToggleGate ==
    [][\A t \in DOMAIN loop :
          (GateStep(t) /\ ToggleRun(t)) =>
              ((loop'[t].gate = "permit")
                  <=> (toggle_state' /\ now - last_trigger >= CooldownTicks))]_vars

\* C4, as claimed: in a Toggle run toggle_on has changed once for every
\* false->true transition of pressed, so after a tick's gate it is on exactly
\* when the number of press edges since the start of the run is odd.
C4_ToggleFollowsEdges ==
    \A t \in DOMAIN loop :
        (Gated(t) /\ ToggleRun(t)) => (toggle_state <=> press_edges_odd)

-----------------------------------------------------------------------------
(* Claims on selection and aim, checked under SpecAim *)

\* A worker whose tick went through the gate and on to the selection
Permitted(t) == loop[t].pc = "report" /\ loop[t].gate = "permit"

\* The boxes of the tick's first result set; none when there is no result set
BoxesOf(t) == IF loop[t].results = <<>> THEN <<>> ELSE loop[t].results[1]

\* Four times the squared Euclidean distance from the centre of box b to the
\* point whose doubled coordinates are c2
Dist4(b, c2) ==
    ((b[1] + b[3]) - c2[1]) * ((b[1] + b[3]) - c2[1])
    + ((b[2] + b[4]) - c2[2]) * ((b[2] + b[4]) - c2[2])

\* i is the first index of boxes at the least distance from c2
FirstNearest(boxes, i, c2) ==
    /\ \A j \in 1..Len(boxes) : Dist4(boxes[i], c2) <= Dist4(boxes[j], c2)
    /\ \A j \in 1..(i - 1) : Dist4(boxes[j], c2) > Dist4(boxes[i], c2)

\* C5: with no box in the detection list no box is selected and no move is
\* requested; with at least one box the selected box is the first, in input
\* order, of those whose centre is at the least Euclidean distance from the
\* reference centre.
C5_NearestFirst ==
    \A t \in DOMAIN loop :
        Permitted(t) =>
            IF BoxesOf(t) = <<>>
            THEN loop[t].closest_box = None /\ loop[t].move = None
            ELSE \E i \in 1..Len(BoxesOf(t)) :
                    /\ FirstNearest(BoxesOf(t), i, loop[t].center)
                    /\ loop[t].closest_box = BoxesOf(t)[i]

\* C5 witness: of three boxes the second and the third, which differ, are at the
\* same least distance, and the second was selected.
C5_Witness ==
    \E t \in DOMAIN loop :
        /\ Permitted(t)
        /\ Len(BoxesOf(t)) = 3
        /\ FirstNearest(BoxesOf(t), 2, loop[t].center)
        /\ Dist4(BoxesOf(t)[3], loop[t].center) = Dist4(BoxesOf(t)[2], loop[t].center)
        /\ BoxesOf(t)[3] # BoxesOf(t)[2]
        /\ loop[t].closest_box = BoxesOf(t)[2]

\* m is the rational n / den with its fraction dropped, toward zero
TruncatedToward0(m, n, den) ==
    IF n >= 0
    THEN m >= 0 /\ m * den <= n /\ n < (m + 1) * den
    ELSE m <= 0 /\ m * den >= n /\ n > (m - 1) * den

\* (lo + (hi - lo) * (0.5 + off) - centre) * sens as a numerator over MoveDen:
\* off and sens in hundredths, c2 the doubled centre
AimNumerator(lo, hi, off, c2, sens) ==
    (200 * lo + (hi - lo) * (100 + 2 * off) - 100 * c2) * sens

\* C8: the requested move for the selected box is, per axis,
\* (min + (max - min) * (0.5 + target offset) - centre) * sensitivity with its
\* fraction dropped toward zero; with both offsets 0 and the centre of the box
\* on the reference centre it is (0, 0).
C8_AimDelta ==
    \A t \in DOMAIN loop :
        (Permitted(t) /\ loop[t].closest_box # None) =>
            LET b == loop[t].closest_box
                c == loop[t].center
                s == loop[t].snap
            IN  /\ Len(loop[t].move) = 2
                /\ TruncatedToward0(loop[t].move[1],
                                    AimNumerator(b[1], b[3], s.xoff, c[1], s.yaw), MoveDen)
                /\ TruncatedToward0(loop[t].move[2],
                                    AimNumerator(b[2], b[4], s.yoff, c[2], s.pitch), MoveDen)
                /\ (s.xoff = 0 /\ s.yoff = 0 /\ b[1] + b[3] = c[1] /\ b[2] + b[4] = c[2])
                       => loop[t].move = <<0, 0>>

\* C8 witness: a move whose exact value is negative and not whole on both axes,
\* with offsets that are not 0.
C8_Witness ==
    \E t \in DOMAIN loop :
        /\ Permitted(t) /\ loop[t].closest_box # None
        /\ loop[t].snap.xoff # 0 /\ loop[t].snap.yoff # 0
        /\ LET b == loop[t].closest_box
               c == loop[t].center
               s == loop[t].snap
               nx == AimNumerator(b[1], b[3], s.xoff, c[1], s.yaw)
               ny == AimNumerator(b[2], b[4], s.yoff, c[2], s.pitch)
           IN  /\ nx < 0 /\ nx % MoveDen # 0
               /\ ny < 0 /\ ny % MoveDen # 0
               /\ loop[t].move[1] < 0 /\ loop[t].move[2] < 0

-----------------------------------------------------------------------------
(* Claims on regions and capture outcomes, checked under SpecRegion *)

\* C6, as claimed: on a 1920x1080 display in the fixed 640 square mode the
\* rectangle captured is (640, 220, 640, 640), and the single box
\* (300, 300, 340, 340) with both target offsets 0 gives the move (0, 0)
\* whatever the sensitivities.
C6_Scenario ==
    \A t \in DOMAIN loop :
        ( /\ Permitted(t)
          /\ loop[t].capture.width = 1920 /\ loop[t].capture.height = 1080
          /\ loop[t].mode = "Center640"
          /\ BoxesOf(t) = << <<300, 300, 340, 340>> >>
          /\ loop[t].snap.xoff = 0 /\ loop[t].snap.yoff = 0 )
        => /\ loop[t].rect = <<640, 220, 640, 640>>
           /\ loop[t].move = <<0, 0>>

\* C7, as claimed: in a tick that selects a box the reference point is the
\* centre (w/2, h/2) of the frame captured in that tick, in every region mode
\* and after changes of mode or display.
C7_RegionCentre ==
    \A t \in DOMAIN loop :
        (Permitted(t) /\ loop[t].closest_box # None)
            => loop[t].center = <<loop[t].width, loop[t].height>>

\* The step of worker t that makes the tick's capture call
CaptureStep(t) == loop[t].pc = "capture" /\ loop'[t].pc # "capture"

\* The capture call of the step asked the platform for a frame and was answered out
Answered(t, out) == loop'[t].out = out

\* The session (handle, width, height) is as it was before the step
SessionKept(t) ==
    /\ loop'[t].capture.dup = loop[t].capture.dup
    /\ loop'[t].capture.width = loop[t].capture.width
    /\ loop'[t].capture.height = loop[t].capture.height

\* The session holds a new handle on the current display and its dimensions
SessionRenewed(t) ==
    /\ loop'[t].capture.dup = NewDup(display)
    /\ loop[t].capture.dup # NewDup(display)
    /\ loop'[t].capture.width = display[1]
    /\ loop'[t].capture.height = display[2]

\* C9, as claimed: on a timeout the call returns Ok(false) and leaves the
\* session, width and height as they were; on a lost session it replaces the
\* handle by a new one, refreshes width and height from it and returns Ok(false).
C9_CaptureOutcomes ==
    [][\A t \in DOMAIN loop :
          CaptureStep(t) =>
              /\ Answered(t, "Timeout") => (loop'[t].ret = "Ok_false" /\ SessionKept(t))
              /\ Answered(t, "AccessLost")
                    => (loop'[t].ret = "Ok_false" /\ SessionRenewed(t))]_vars

\* C9, amended: on a timeout the call returns Ok(false) and leaves the session,
\* width and height as they were; on a lost session it tries to create a new
\* handle: created, the handle replaces the old one, width and height are
\* refreshed from it and the call returns Ok(false); not created, the call
\* returns the error and leaves handle, width and height as they were.
C9_CaptureOutcomesAmended ==
    [][\A t \in DOMAIN loop :
          CaptureStep(t) =>
              /\ Answered(t, "Timeout") => (loop'[t].ret = "Ok_false" /\ SessionKept(t))
              /\ (Answered(t, "AccessLost") /\ loop'[t].created = "ok")
                    => (loop'[t].ret = "Ok_false" /\ SessionRenewed(t))
              /\ (Answered(t, "AccessLost") /\ loop'[t].created = "fail")
                    => (loop'[t].ret = "Err" /\ SessionKept(t))]_vars

\* C9 witness: a region capture found the session lost after the display had
\* gone from 1920x1080 to 800x600, and came back Ok(false) with a session of
\* 800x600.
C9_Witness ==
    \E t \in DOMAIN loop :
        /\ loop[t].pc = "top" /\ loop[t].kind = "region"
        /\ loop[t].out = "AccessLost" /\ loop[t].created = "ok"
        /\ loop[t].ret = "Ok_false"
        /\ loop[t].rect[3] > 800
        /\ loop[t].capture.dup = NewDup(<<800, 600>>)
        /\ loop[t].capture.width = 800 /\ loop[t].capture.height = 600

\* The tick of the step ends as "no frame": back to the top of the loop, nothing
\* logged, is_running as it was
NoFrameTick(t) ==
    /\ loop'[t].pc = "top"
    /\ loop'[t].ret = "Ok_false"
    /\ logs' = logs
    /\ is_running' = is_running

\* The step ends the loop on an error: logged, is_running cleared
FatalTick(t) ==
    /\ loop'[t].pc = "exit"
    /\ loop'[t].ret = "Err"
    /\ logs' = push_log(logs, "Error", "capture failed")
    /\ ~is_running'

-----------------------------------------------------------------------------
(* Claims on the life of a run, checked under SpecLoad and SpecRun *)

\* Where a worker is while it executes ticks
TickPcs == {"top", "capture", "infer", "gate", "report"}

\* A worker thread that was spawned and has not ended
Alive(t) == loop[t].pc \notin {"none", "done", "panicked"}

\* A poller thread that was spawned and has not ended
PollerAlive(p) == poller[p].pc \in {"run", "write"}

\* The step of worker t in which its capture or its inference fails
ErrorStep(t) == loop[t].pc \in {"capture", "infer"} /\ loop'[t].pc = "exit"

\* The step of worker t after its loop
ExitStep(t) == loop[t].pc = "exit" /\ loop'[t].pc # "exit"

\* The step adds exactly one entry to the log, an error
OneErrorLogged ==
    /\ Len(logs') = Len(logs) + 1
    /\ SubSeq(logs', 1, Len(logs)) = logs
    /\ logs'[Len(logs')].level = "Error"

\* C11: a capture or inference error that is not soft ends the run in its tick:
\* one error entry is logged, is_running is cleared (the start button is
\* enabled again), the tick has no move, and the worker's next step tells the
\* poller to stop and ends the thread; any other step of a tick leaves
\* is_running as it is, logs no error, and leaves the loop only at its top with
\* is_running clear.
C11_FatalEndsRun ==
    [][\A t \in DOMAIN loop :
          /\ ErrorStep(t) =>
                /\ OneErrorLogged
                /\ ~is_running'
                /\ loop'[t].gate = "none" /\ loop'[t].move = None
          /\ ExitStep(t) => (loop'[t].pc = "done" /\ ~listener_running')
          /\ (loop[t].pc \in TickPcs /\ loop'[t].pc # loop[t].pc /\ ~ErrorStep(t)) =>
                /\ is_running' = is_running
                /\ \A i \in 1..Len(logs') : i > Len(logs) => logs'[i].level # "Error"
                /\ loop'[t].pc \in TickPcs \/ (loop[t].pc = "top" /\ ~is_running)]_vars

\* C11 witness: the inference of a tick failed (which takes a captured frame); the
\* worker has ended, is_running and the listener's flag are clear, the last
\* entry of the log is the error.
C11_Witness ==
    \E t \in DOMAIN loop :
        /\ loop[t].pc = "done"
        /\ ~is_running /\ ~listener_running
        /\ logs[Len(logs)] = [level |-> "Error", msg |-> "inference failed"]

\* C12: when the capture session cannot be created at the start of a run, the
\* worker logs the error once, clears is_running and goes straight to its exit,
\* where it tells the poller to stop and ends: it never reaches a tick; a worker
\* enters the loop only with a session.
C12_StartFailure ==
    [][\A t \in DOMAIN loop :
          /\ (loop[t].pc = "init" /\ loop'[t].pc = "exit") =>
                /\ OneErrorLogged
                /\ ~is_running'
                /\ loop'[t] = [loop[t] EXCEPT !.pc = "exit"]
                /\ loop'[t].capture = NoCapture
          /\ (loop[t].pc = "exit" /\ loop[t].capture = NoCapture /\ loop'[t] # loop[t]) =>
                /\ loop'[t] = [loop[t] EXCEPT !.pc = "done"]
                /\ ~listener_running'
                /\ logs' = logs
          /\ (loop[t].pc = "init" /\ loop'[t].pc \in TickPcs) =>
                loop'[t].capture # NoCapture]_vars

\* C12 witness: a run whose session could not be created has ended without a
\* tick, and the poller started for it has ended too.
C12_Witness ==
    \E t \in DOMAIN loop :
        /\ loop[t].pc = "done" /\ loop[t].capture = NoCapture /\ loop[t].ret = "none"
        /\ ~is_running /\ ~listener_running
        /\ logs[Len(logs)] = [level |-> "Error", msg |-> "capture init failed"]
        /\ \E p \in DOMAIN poller : poller[p].pc = "done"

\* No worker thread and no poller thread is alive
Quiet ==
    /\ \A t \in DOMAIN loop : ~Alive(t)
    /\ \A p \in DOMAIN poller : ~PollerAlive(p)

\* C13: is_running is read at the top of every tick, and a worker that finds it
\* clear there leaves the loop instead of beginning a tick; after the loop it
\* tells the poller to stop, and a poller that finds its flag clear ends; so
\* once is_running is cleared and not set again, every worker and poller ends.
C13_CooperativeStop ==
    /\ [][\A t \in DOMAIN loop :
            /\ (loop[t].pc = "top" /\ loop'[t].pc # "top")
                  => (IF is_running THEN loop'[t].pc = "capture" ELSE loop'[t].pc = "exit")
            /\ (loop[t].pc # "capture" /\ loop'[t].pc = "capture") => loop[t].pc = "top"
            /\ ExitStep(t) => (loop'[t].pc = "done" /\ ~listener_running')]_vars
    /\ [][\A p \in DOMAIN poller :
            (poller[p].pc = "run" /\ poller'[p] # poller[p] /\ ~listener_running)
                => poller'[p].pc = "done"]_vars
    /\ (~is_running ~> (is_running \/ Quiet))

\* C13 witness: stop was clicked in a run with a live worker and no error; the
\* worker and the poller have ended.
C13_Witness ==
    /\ Quiet /\ ~is_running /\ ~listener_running
    /\ logs[Len(logs)] = [level |-> "Info", msg |-> "stop"]
    /\ \E t \in DOMAIN loop : loop[t].pc = "done"
    /\ \E p \in DOMAIN poller : poller[p].pc = "done"

\* C14, as claimed: while a worker executes ticks of a run that was not stopped,
\* a poller thread is alive, whatever the order of stop, start and the exit of
\* an earlier worker.
C14_PollerWhileRunning ==
    \A t \in DOMAIN loop :
        (is_running /\ loop[t].pc \in TickPcs) => \E p \in DOMAIN poller : PollerAlive(p)

\* C15, as claimed: after any starts and stops at most one worker is inside a
\* tick at any time.
C15_OneWorker ==
    Cardinality({t \in DOMAIN loop : loop[t].pc \in TickPcs \ {"top"}}) <= 1

\* The step is a click on the load button
LoadStep ==
    /\ Len(logs') = Len(logs) + 1
    /\ logs'[Len(logs')].msg \in {"model loaded", "model load failed"}

\* C16, as claimed: a model is loaded only while no worker thread is alive.
C16_NoLoadWhileAlive ==
    [][LoadStep => \A t \in DOMAIN loop : ~Alive(t)]_vars

\* A hotkey-capture thread that was spawned and has not ended
CapturerAlive(c) == capturer[c].pc = "run"

\* C17, as claimed: a hotkey-capture thread and a hotkey poller thread are never
\* alive at the same time.
C17_CaptureExcludesPolling ==
    ~(\E c \in DOMAIN capturer, p \in DOMAIN poller : CapturerAlive(c) /\ PollerAlive(p))

-----------------------------------------------------------------------------
(* Claims on the rectangle of a tick, checked under SpecClamp *)

RegionModes == {"Center640", "Center1280", "Custom"}

\* Worker t has made the capture call of its tick in a region mode
RegionTick(t) == loop[t].mode \in RegionModes

\* A frame was acquired and copied in the tick of worker t
Copied(t) == loop[t].out = "Frame"

\* The part of the display copied: from the origin asked for, as large as the buffer
CopiedRect(t) ==
    <<loop[t].rect[1], loop[t].rect[2],
      loop[t].rect[1] + loop[t].capture.rgba[1], loop[t].rect[2] + loop[t].capture.rgba[2]>>

InsideDisplay(r) ==
    /\ 0 <= r[1] /\ r[1] < r[3] /\ r[3] <= display[1]
    /\ 0 <= r[2] /\ r[2] < r[4] /\ r[4] <= display[2]

\* C18: in the fixed-square and custom modes, whatever the display's size and the
\* rectangle asked for, the rectangle copied in a tick lies inside the display and
\* has positive area; a tick that copies nothing reports no capture, and the
\* arithmetic of the request never ends the worker.
C18_RegionClamped ==
    \A t \in DOMAIN loop :
        RegionTick(t) =>
            /\ Copied(t) => InsideDisplay(CopiedRect(t))
            /\ loop[t].did_capture => Copied(t)
            /\ loop[t].ret # "Panic"

\* A custom rectangle that sticks out of the display was asked for and a clamped
\* part of it copied
C18_Witness ==
    \E t \in DOMAIN loop :
        /\ loop[t].mode = "Custom" /\ loop[t].kind = "region"
        /\ loop[t].snap.custom[1] + loop[t].snap.custom[3] > display[1]
        /\ loop[t].snap.custom[2] + loop[t].snap.custom[4] > display[2]
        /\ Copied(t) /\ loop[t].pc = "infer"

\* The custom rectangle of worker t is empty or starts outside the display
Degenerate(t) ==
    LET c == loop[t].snap.custom
    IN  /\ loop[t].mode = "Custom"
        /\ c[3] = 0 \/ c[4] = 0 \/ c[1] >= display[1] \/ c[2] >= display[2]

Inferred(t) == loop[t].pc \in {"gate", "report"}

\* C19, as claimed: a tick whose rectangle would have zero width or height is a
\* tick without a frame: nothing is asked of the display, nothing is inferred.
C19_EmptyIsNoFrame ==
    \A t \in DOMAIN loop :
        RegionTick(t) /\ Degenerate(t) =>
            /\ loop[t].out = "none"
            /\ ~loop[t].did_capture
            /\ ~Inferred(t)

\* C19, amended: an empty custom rectangle, or one that starts outside the display,
\* is replaced by the whole display, which is captured and inferred like a
\* full-screen tick; every region asked for has positive width and height; a tick
\* passes a frame on only if one was copied, and a tick without a frame infers
\* nothing.
C19_EmptyIsFullDisplay ==
    \A t \in DOMAIN loop :
        RegionTick(t) =>
            /\ Degenerate(t) =>
                    /\ loop[t].kind = "full"
                    /\ loop[t].rect = <<0, 0, display[1], display[2]>>
                    /\ Copied(t) /\ loop[t].ret = "Ok_true" =>
                            /\ loop[t].did_capture
                            /\ <<loop[t].width, loop[t].height>> = display
            /\ loop[t].kind = "region" => loop[t].rect[3] > 0 /\ loop[t].rect[4] > 0
            /\ loop[t].did_capture => Copied(t) /\ loop[t].width > 0 /\ loop[t].height > 0
            /\ loop[t].ret = "Ok_false" => ~loop[t].did_capture /\ loop[t].pc = "top"
            /\ Inferred(t) => loop[t].did_capture

\* A custom rectangle of width 0 was set, and the whole display went through
\* inference
C19_Witness ==
    \E t \in DOMAIN loop :
        /\ Degenerate(t) /\ loop[t].snap.custom[3] = 0
        /\ loop[t].kind = "full" /\ loop[t].did_capture /\ Inferred(t)
        /\ loop[t].width = display[1]

-----------------------------------------------------------------------------
(* Claim on capture_region over the whole word, checked under SpecWord *)

\* C20, as claimed: for all arguments of the word's range, width 0 or height 0
\* returns false before any acquisition; otherwise the rectangle is clipped to
\* end_x = min(x + width, W), end_y = min(y + height, H), and an empty clipped
\* rectangle returns false without acquiring, a non-empty one is acquired and
\* copied at that size; the call never aborts and never copies outside the display,
\* however large x + width and y + height are.
C20_RegionValidation ==
    call.pc = "returned" =>
        LET end_x == Min(call.x + call.width, display[1])
            end_y == Min(call.y + call.height, display[2])
            empty == call.width = 0 \/ call.height = 0 \/ end_x <= call.x \/ end_y <= call.y
        IN  /\ call.ret # "Panic"
            /\ empty => call.ret = "Ok_false" /\ ~call.asked
            /\ ~empty => call.asked
            /\ call.out = "Frame" =>
                    /\ call.cap.rgba = <<end_x - call.x, end_y - call.y>>
                    /\ call.x + call.cap.rgba[1] <= display[1]
                    /\ call.y + call.cap.rgba[2] <= display[2]

-----------------------------------------------------------------------------
(* Claim on the session of a worker, checked under SpecRegion *)

\* The session of worker t has the width and height of the handle it holds, which
\* is the last one created for it
SessionMatchesHandle(t) ==
    /\ loop[t].capture.width = loop[t].capture.dup.disp[1]
    /\ loop[t].capture.height = loop[t].capture.dup.disp[2]

\* Worker t holds a frame that goes, or went, through inference in this tick
Processing(t) == loop[t].pc \in {"infer", "gate", "report"}

\* The frame of the tick was copied from the session as it is now, in a tick that
\* did not re-create it, and is processed with the width and height asked of it
ProcessedAsCaptured(t) ==
    /\ loop[t].out = "Frame" /\ loop[t].created = "none"
    /\ <<loop[t].width, loop[t].height>> = loop[t].capture.rgba
    /\ loop[t].kind = "full" =>
            <<loop[t].width, loop[t].height>> = <<loop[t].capture.width, loop[t].capture.height>>
    /\ loop[t].kind = "region" =>
            /\ loop[t].rect[1] + loop[t].width <= loop[t].capture.width
            /\ loop[t].rect[2] + loop[t].height <= loop[t].capture.height

\* A handle that answered AccessLost is replaced in the same call, or the worker
\* leaves the loop, where it asks for no frame any more
LostIsReplacedOrFatal(t) ==
    /\ (CaptureStep(t) /\ Answered(t, "AccessLost")) =>
            \/ loop'[t].created = "ok" /\ SessionRenewed(t) /\ loop'[t].pc = "top"
            \/ loop'[t].created = "fail" /\ loop'[t].pc = "exit"
    /\ loop[t].pc = "exit" => loop'[t].pc \in {"exit", "done"}

\* C21: the session's width and height are those of the handle created last; a
\* handle found lost is replaced before the next acquisition or the run ends; a
\* frame that is converted and inferred has the width and height of the session
\* that produced it, and no frame is processed in a tick that re-created the
\* session.
C21_SessionInvariant ==
    /\ [](\A t \in DOMAIN loop :
             /\ SessionMatchesHandle(t)
             /\ Processing(t) => ProcessedAsCaptured(t))
    /\ [][\A t \in DOMAIN loop : LostIsReplacedOrFatal(t)]_vars

\* C21 witness: a worker whose first session was 1920 x 1080 infers a frame of the
\* whole display at 800 x 600, after a re-creation in an earlier tick
C21_Witness ==
    \E t \in DOMAIN loop :
        /\ loop[t].pc = "gate" /\ loop[t].kind = "full"
        /\ loop[t].center = <<1920, 1080>>
        /\ loop[t].capture.width = 800 /\ loop[t].width = 800 /\ loop[t].height = 600

-----------------------------------------------------------------------------
(* Claim on the pixel conversion, checked under SpecConv *)

\* C22: for a captured buffer of 4 * w * h bytes, the converted buffer has
\* 3 * w * h bytes and pixel i of it is (src[4i+2], src[4i+1], src[4i]), in
\* whatever order the pixels were done; the captured buffer is not changed.
C22_PixelConversion ==
    /\ conv.pc # "none" => conv.rgba = conv.src /\ Len(conv.src) = 4 * conv.width * conv.height
    /\ conv.pc = "done" =>
          /\ Len(conv.rgb) = 3 * conv.width * conv.height
          /\ \A i \in 0..(conv.width * conv.height - 1) :
                /\ conv.rgb[3 * i + 1] = conv.src[4 * i + 2 + 1]
                /\ conv.rgb[3 * i + 1 + 1] = conv.src[4 * i + 1 + 1]
                /\ conv.rgb[3 * i + 2 + 1] = conv.src[4 * i + 1]

\* C22 witness: a frame of four pixels, of two kinds, was converted
C22_Witness ==
    /\ conv.pc = "done" /\ conv.width * conv.height = 4
    /\ conv.rgb = <<30, 20, 10, 255, 128, 0, 30, 20, 10, 255, 128, 0>>

-----------------------------------------------------------------------------
(* Claim on the version and task of a model file, checked under SpecMeta *)

\* The lower-cased stem of the call
Stem == to_ascii_lowercase(meta.stem)

\* The run of digits that begins at position i of the stem
DigitsFrom(i) ==
    LET n == CHOOSE k \in 0..(Len(Stem) - i + 1) :
                /\ \A j \in i..(i + k - 1) : is_ascii_digit(Stem[j])
                /\ i + k <= Len(Stem) => ~is_ascii_digit(Stem[i + k])
    IN  SubSeq(Stem, i, i + n - 1)

\* The number a run of digits denotes, as far as 1000
RECURSIVE Denotes(_)
Denotes(ds) ==
    IF ds = <<>> THEN 0
    ELSE Min(1000, 10 * Denotes(SubSeq(ds, 1, Len(ds) - 1)) + digit_value(ds[Len(ds)]))

\* Where the first "yolo" ends, and the digits directly behind it
YoloAt == {i \in 1..(Len(Stem) - 3) : SubSeq(Stem, i, i + 3) = <<"y", "o", "l", "o">>}
FirstYolo == CHOOSE i \in YoloAt : \A j \in YoloAt : i <= j
YoloDigits == IF YoloAt = {} THEN <<>> ELSE DigitsFrom(FirstYolo + 4)

\* The 'v's directly followed by digits, the first of them, its digits
VAt(P(_)) == {i \in 1..Len(Stem) : Stem[i] = "v" /\ DigitsFrom(i + 1) # <<>> /\ P(DigitsFrom(i + 1))}
FirstV(P(_)) == CHOOSE i \in VAt(P) : \A j \in VAt(P) : i <= j

AnyDigits(ds) == TRUE
FitsU8(ds) == Denotes(ds) <= U8_MAX

Resolved(v) == meta.ok /\ meta.version = v
Segmentation == \E i \in 1..(Len(Stem) - 2) : SubSeq(Stem, i, i + 2) = <<"s", "e", "g">>

\* C23, as claimed: an override always wins; otherwise the digits directly behind
\* the first "yolo" are the version, else the digits directly behind the first 'v'
\* that is followed by digits; without either and without an override the call
\* fails.  A name with "seg" gives the segmentation task.
C23_VersionFromName ==
    meta.pc = "returned" =>
        /\ IF meta.override # NoVersion THEN Resolved(meta.override)
           ELSE IF YoloDigits # <<>> THEN Resolved(Denotes(YoloDigits))
           ELSE IF VAt(AnyDigits) # {} THEN Resolved(Denotes(DigitsFrom(FirstV(AnyDigits) + 1)))
           ELSE ~meta.ok
        /\ (meta.ok /\ Segmentation) => meta.task = "InstanceSegmentation"

\* C23, amended: an override always wins; otherwise the digits directly behind the
\* first "yolo" are the version when they denote a number up to 255; else the
\* digits directly behind the first 'v' whose digits denote a number up to 255;
\* else the call fails.  "yolo11n" gives 11, "model_v8_seg" gives 8 with the
\* segmentation task.
C23_VersionFromNameAmended ==
    meta.pc = "returned" =>
        /\ IF meta.override # NoVersion THEN Resolved(meta.override)
           ELSE IF YoloDigits # <<>> /\ FitsU8(YoloDigits) THEN Resolved(Denotes(YoloDigits))
           ELSE IF VAt(FitsU8) # {} THEN Resolved(Denotes(DigitsFrom(FirstV(FitsU8) + 1)))
           ELSE ~meta.ok
        /\ (meta.ok /\ Segmentation) => meta.task = "InstanceSegmentation"
        /\ (meta.override = NoVersion /\ meta.stem = <<"y", "o", "l", "o", "1", "1", "n">>)
              => Resolved(11) /\ meta.task = "ObjectDetection"
        /\ (meta.override = NoVersion
              /\ meta.stem = <<"m", "o", "d", "e", "l", "_", "v", "8", "_", "s", "e", "g">>)
              => Resolved(8) /\ meta.task = "InstanceSegmentation"

\* C23 witness: "model_v8_seg" without an override came back as version 8,
\* segmentation
C23_Witness ==
    /\ meta.pc = "returned" /\ meta.override = NoVersion
    /\ meta.stem = <<"m", "o", "d", "e", "l", "_", "v", "8", "_", "s", "e", "g">>
    /\ meta.ok /\ meta.version = 8 /\ meta.task = "InstanceSegmentation"

-----------------------------------------------------------------------------
(* Claim on load_model, checked under SpecLoadModel *)

\* The path of the call cannot be a model file: it is empty, does not exist, is no
\* regular file or has another extension than .onnx
BadPath ==
    \/ meta.path.empty
    \/ ~meta.path.exists
    \/ ~meta.path.is_file
    \/ meta.path.ext \notin {<<"o", "n", "n", "x">>, <<"O", "N", "N", "X">>}

\* C24: a load fails, before a configuration is committed or a model built, when
\* the path is empty, does not exist, is not a regular file or does not end in
\* .onnx; after a failed load the engine holds the model it held before, none if
\* it never loaded one; a load that succeeds stores the model built.
C24_LoadValidation ==
    meta.pc = "loaded" =>
        /\ BadPath => (~meta.ok /\ meta.stage = "validate")
        /\ ~meta.ok => meta.model = meta.before
        /\ meta.ok => (~BadPath /\ meta.model = "new" /\ meta.commit_ok /\ meta.build_ok)
        /\ (meta.path.exists /\ meta.path.is_file /\ meta.path.ext = <<"t", "x", "t">>)
              => (meta.err = "not_onnx" /\ meta.model = meta.before)

\* C24 witness: an existing .txt file was given to an engine that never loaded a
\* model; the call failed on the extension and the engine holds no model
C24_Witness ==
    /\ meta.pc = "loaded" /\ meta.before = "none"
    /\ meta.path.exists /\ meta.path.is_file /\ meta.path.ext = <<"t", "x", "t">>
    /\ meta.commit_ok /\ meta.build_ok
    /\ ~meta.ok /\ meta.err = "not_onnx" /\ meta.model = "none"

-----------------------------------------------------------------------------
(* Claims on capture_once, checked under SpecEngine *)

\* The call of capture_once has returned after copying a frame
ReturnedWithFrame == eng.pc = "returned" /\ eng.out = "Frame" /\ eng.cap.rgba[1] > 0

\* C25, as claimed: inference asked for while no model is loaded fails with an
\* error; a frame is never reported as processed without a model.
C25_NoModelIsAnError ==
    (ReturnedWithFrame /\ ~eng.model) => (eng.ret = "Err" /\ ~eng.did_capture)

\* The step of the call that reads the threshold and hands it to the model
ConfRead == eng.pc = "convert" /\ eng'.pc = "run"

\* C26: the threshold starts at 0.25 and stays within [0, 1] whatever the slider
\* does; a call uses the value the shared threshold holds when the call reads it:
\* the value it held when the call began unless it was set since, and then a
\* value that was set; setting it loads no model.
C26_ConfidenceThreshold ==
    /\ conf_threshold = 25
    /\ [](0 <= conf_threshold /\ conf_threshold <= 100)
    /\ [][ConfRead => eng'.conf_used = conf_threshold]_vars
    /\ [](eng.pc \in {"run", "returned"} /\ eng.conf_used # -1 =>
             /\ eng.conf_used \in {eng.conf_at_call} \cup eng.conf_set
             /\ eng.conf_set = {} => eng.conf_used = eng.conf_at_call)
    /\ [][conf_threshold' # conf_threshold => eng'.model = eng.model /\ eng'.pc = eng.pc]_vars

\* C26 witness: the slider was moved to 0.6 before the call began and to 1.0 while
\* the frame was converted; the call ran the model with 1.0
C26_Witness ==
    /\ eng.pc = "returned" /\ eng.inferred
    /\ eng.conf_at_call = 60 /\ eng.conf_set = {100} /\ eng.conf_used = 100

-----------------------------------------------------------------------------
(* Claims on the settings of a run, checked under SpecSettings *)

\* Worker t is spawned by this step
Spawned(t) == ~Alive(t) /\ loop'[t].pc = "init"

\* Worker t lets the pointer move in this step
Permits(t) == loop[t].pc = "gate" /\ loop'[t].gate = "permit"

\* C27: a run uses the sensitivities, offsets, trigger type and hotkey captured
\* when it was started: its copy is the settings shown at the start and the
\* listener gets their hotkey; no step of a worker that lives on changes the copy,
\* the hotkey changes with a start only, and every pointer move is computed from
\* the copy, whatever is edited or saved meanwhile.
C27_SettingsSnapshot ==
    [][\A t \in DOMAIN loop :
          /\ Spawned(t) => /\ loop'[t].snap = ui
                           /\ hotkey_name' = to_lowercase(ui.hotkey)
          /\ Alive(t) /\ Alive(t)' => loop'[t].snap = loop[t].snap
          /\ hotkey_name' # hotkey_name => runs' = runs + 1
          /\ Permits(t) /\ loop'[t].closest_box # None =>
                loop'[t].move = move_for(loop'[t].closest_box, loop[t].center,
                                         loop[t].snap)]_vars

\* C27 witness: the pointer was moved with the settings of the start while the
\* control surface shows other sensitivities, offsets, trigger type and hotkey
C27_Witness ==
    \E t \in DOMAIN loop :
        /\ loop[t].pc = "report" /\ loop[t].gate = "permit" /\ loop[t].move # None
        /\ loop[t].snap = DefaultSettings
        /\ ui.yaw # 30 /\ ui.xoff # 0 /\ ui.toggle /\ ui.hotkey # "x1"
        /\ hotkey_name = "x1"
        /\ loop[t].move # move_for(loop[t].closest_box, loop[t].center, ui)

\* C28, as claimed: every capture is made for the region configuration the
\* control surface holds at that tick, the mode and the custom rectangle.
C28_RegionIsLive ==
    [][\A t \in DOMAIN loop :
          loop[t].pc = "capture" /\ loop'[t].pc # "capture" =>
              loop'[t].rect = RegionRequest(capture_config, ui.custom,
                                            loop[t].capture.width,
                                            loop[t].capture.height).rect]_vars

-----------------------------------------------------------------------------
(* Claims on the statistics of the loop, checked under SpecStats *)

\* Worker t completes an inference in this step
InferDone(t) == loop[t].pc = "infer" /\ loop'[t].pc = "gate"

\* Worker t ends a tick in this step with a report interval gone by
WindowEnds(t) ==
    loop[t].pc = "report" /\ loop'[t].pc = "top" /\ report_due(loop[t].stats, now)

\* Worker t abandons its tick for want of a new frame in this step
NoFrame(t) == loop[t].pc = "capture" /\ loop'[t].pc = "top"

\* frames, capture_total, infer_total of a worker's locals
Counters(l) == <<l.stats.frames, l.stats.capture_total, l.stats.infer_total>>

\* C29: within a report window the frame count and the two accumulated times
\* never decrease; a tick that completes inference adds 1 to the count and its
\* own capture time (from the tick's start to the end of its capture) and
\* inference time once, no other step adds anything, a tick with no new frame
\* in particular; at a window boundary the report is logged and the three
\* counters and the window start are reset together.
C29_FrameStatistics ==
    [][\A t \in DOMAIN loop : Alive(t) /\ Alive(t)' /\ loop[t].pc # "init" =>
          LET s == loop[t].stats
              n == loop'[t].stats
          IN  /\ loop[t].pc = "top" /\ loop'[t].pc = "capture" => n.capture_start = now
              /\ loop[t].pc = "capture" /\ loop'[t].pc # "capture" =>
                    n.capture_ms = now - s.capture_start
              /\ ~WindowEnds(t) =>
                    /\ n.frames >= s.frames
                    /\ n.capture_total >= s.capture_total
                    /\ n.infer_total >= s.infer_total
                    /\ n.last_report = s.last_report
              /\ InferDone(t) =>
                    Counters(loop[t])' =
                        <<s.frames + 1, s.capture_total + s.capture_ms,
                          s.infer_total + (now - s.infer_start)>>
              /\ ~InferDone(t) /\ ~WindowEnds(t) => Counters(loop[t])' = Counters(loop[t])
              /\ NoFrame(t) => Counters(loop[t])' = Counters(loop[t])
              /\ WindowEnds(t) =>
                    /\ Counters(loop[t])' = <<0, 0, 0>>
                    /\ n.last_report = now
                    /\ logs' = push_log(logs, "Info", "fps")]_vars

\* C29 witness: two frames are counted in the second window, the capture of the
\* first and the inference of one having taken time, after a first window that
\* was reported
C29_Witness ==
    \E t \in DOMAIN loop :
        /\ loop[t].pc = "gate"
        /\ loop[t].stats.frames = 2
        /\ loop[t].stats.capture_total > loop[t].stats.capture_ms
        /\ loop[t].stats.infer_total > 0
        /\ loop[t].stats.last_report >= ReportTicks
        /\ \E i \in DOMAIN logs : logs[i].msg = "fps"

\* C30, as claimed: every tick of a running loop, one with no new frame too, ends
\* with the sleep, and no tick ends a second or more after the window began
\* without the report being logged.
C30_EveryTickYieldsAndReports ==
    [][\A t \in DOMAIN loop :
          loop[t].pc \in {"capture", "infer", "gate", "report"} /\ loop'[t].pc = "top" =>
              /\ loop[t].pc = "report"
              /\ report_due(loop[t].stats, now) =>
                    /\ logs' = push_log(logs, "Info", "fps")
                    /\ loop'[t].stats.last_report = now]_vars

-----------------------------------------------------------------------------
(* Claims on the order of a tick, checked under SpecTick *)

\* Worker t moves from one position of its tick to another in this step
Moves(t, from, to) == loop[t].pc = from /\ loop'[t].pc = to

\* Worker t enters position to in this step
Enters(t, to) == loop[t].pc # to /\ loop'[t].pc = to

\* C31: in a tick the capture comes first, the inference (with its conversion)
\* only after a capture that brought a frame, the gate, the selection and the
\* move only after the inference, and the next capture only after the tick was
\* completed or abandoned; in capture_once the conversion follows the capture of
\* a frame and the inference follows the conversion.  A tick whose capture
\* brought no frame converts nothing, infers nothing, moves nothing and leaves
\* last_trigger as it was.
C31_TickOrder ==
    [][/\ \A t \in DOMAIN loop :
            /\ Enters(t, "capture") => loop[t].pc = "top"
            /\ Enters(t, "infer") =>
                  /\ loop[t].pc = "capture"
                  /\ loop'[t].ret = "Ok_true" /\ loop'[t].capture.rgba[1] > 0
            /\ Enters(t, "gate") => loop[t].pc = "infer"
            /\ Enters(t, "report") => loop[t].pc = "gate"
            /\ Enters(t, "top") => loop[t].pc \in {"init", "capture", "report"}
            /\ loop'[t].results # loop[t].results /\ loop'[t].results # None =>
                  Moves(t, "infer", "gate")
            /\ loop'[t].move # loop[t].move /\ loop'[t].move # None =>
                  Moves(t, "gate", "report")
            /\ Moves(t, "capture", "top") =>
                  /\ loop'[t].ret = "Ok_false"
                  /\ loop'[t].results = None /\ loop'[t].move = None
                  /\ loop'[t].gate = "none"
                  /\ last_trigger' = last_trigger /\ logs' = logs
       /\ last_trigger' # last_trigger => \E t \in DOMAIN loop : Moves(t, "gate", "report")
       /\ eng'.pc # eng.pc =>
            /\ eng'.pc = "convert" => eng.pc = "args" /\ eng'.out = "Frame"
            /\ eng'.pc = "run" => eng.pc = "convert"
            /\ eng'.inferred => eng.pc = "run"
            /\ eng'.pc = "returned" /\ eng'.ret = "Ok" /\ ~eng'.did_capture =>
                  eng.pc = "args" /\ eng'.conf_used = -1 /\ ~eng'.inferred]_vars

\* C31 witness: the worker is at the top of its loop after a tick that found no
\* new frame, which followed a tick that moved the pointer, and the call of
\* capture_once has inferred
C31_Witness ==
    /\ eng.pc = "returned" /\ eng.inferred
    /\ \E t \in DOMAIN loop :
          /\ loop[t].pc = "top" /\ loop[t].ret = "Ok_false" /\ loop[t].out = "Timeout"
          /\ last_trigger > CooldownTicks
          /\ \E i \in DOMAIN logs : logs[i].msg = "move"

-----------------------------------------------------------------------------
(* Claims on the shared results, checked under SpecResults *)

\* The call of capture_once returns in this step
Returns == eng.pc # "returned" /\ eng'.pc = "returned"

\* C32: the shared results hold at most one result set, the first one of the most
\* recent run of the model that returned any: a run that returns results puts its
\* first in the cell, and nothing else changes the cell, be it a failed run, a
\* run without results, a call that found no frame, a call with no model loaded
\* or a call made while not running.
C32_LatestResults ==
    /\ [](Len(eng.results) <= 1)
    /\ [][/\ eng'.results # eng.results =>
                /\ eng.pc = "run" /\ Returns /\ eng'.ret = "Ok" /\ eng'.ys # <<>>
                /\ eng.running /\ eng.model /\ eng.out = "Frame"
          /\ eng.pc = "run" /\ Returns /\ eng'.ret = "Ok" /\ eng'.ys # <<>> =>
                eng'.results = <<eng'.ys[1]>>]_vars

\* C32 witness: the cell holds the result of an earlier call and the call that
\* just returned, made while not running, left it alone
C32_Witness ==
    /\ eng.pc = "returned" /\ ~eng.running /\ ~eng.inferred
    /\ eng.results = <<"y2">>

-----------------------------------------------------------------------------
(* Claims on the gate and the poller, continued *)

\* The hotkey is pressed and the cooldown has gone by
GateOpen == hotkey_pressed /\ (now - last_trigger) \div TicksPerMs >= CooldownMs

\* C33: the permit of the gate takes the cooldown, not the move: a tick at whose
\* gate the hotkey is pressed and the cooldown has gone by sets last_trigger to
\* the time of the gate, with or without a box to aim at; a tick at whose gate
\* the cooldown has not gone by moves nothing, whatever was detected.
C33_PermitTakesCooldown ==
    [][\A t \in DOMAIN loop : GateStep(t) =>
          /\ GateOpen =>
                /\ loop'[t].gate = "permit"
                /\ last_trigger' >= now /\ last_trigger' = now'
          /\ ~GateOpen =>
                /\ loop'[t].gate = "refuse" /\ loop'[t].move = None
                /\ last_trigger' = last_trigger /\ logs' = logs]_vars

\* C33 witness: a permit that found no box has set last_trigger, no move was ever
\* made, and within the cooldown of that permit a tick with a box is at the gate,
\* the hotkey held
C33_Witness ==
    \E t \in DOMAIN loop :
        /\ loop[t].pc = "gate" /\ hotkey_pressed
        /\ BoxesOf(t) # <<>>
        /\ last_trigger >= CooldownTicks
        /\ now - last_trigger < CooldownTicks
        /\ \A i \in DOMAIN logs : logs[i].msg # "move"

\* C34, as claimed: a value of hotkey_pressed left by an earlier run never permits
\* a move: the gate permits only after a poller has written hotkey_pressed since
\* the run was started.
C34_NoStalePress ==
    [][\A t \in DOMAIN loop :
          GateStep(t) /\ loop'[t].gate = "permit" => sampled = "yes"]_vars

\* C35, as claimed: after any starts and stops of the listener at most one poller
\* thread is alive.
C35_OnePoller ==
    Cardinality({p \in DOMAIN poller : PollerAlive(p)}) <= 1

-----------------------------------------------------------------------------
(* Log buffer (src/src/main.rs, push_log and its callers) *)

MaxPushes == 4

\* A log buffer left by n earlier pushes, oldest first; the lines are numbered so
\* that their order can be told
OldLines(n) == [i \in 1..n |-> [level |-> "Debug", msg |-> ToString(i)]]

\* Lines pushed on top of the OldLines
Pushes(l) == Cardinality({i \in 1..Len(l) : l[i].level # "Debug"})

\* The application with a log buffer at, or closely below, its capacity
InitLog ==
    /\ now = 0
    /\ phys = {}
    /\ display = <<1920, 1080>>
    /\ is_running = FALSE
    /\ capture_config = "Fullscreen"
    /\ ui = DefaultSettings
    /\ model_loaded = TRUE
    /\ logs \in {OldLines(n) : n \in (LogCap - 2)..LogCap}
    /\ runs = 0
    /\ listener_running = FALSE
    /\ hotkey_pressed = FALSE
    /\ hotkey_name = "x1"
    /\ last_trigger = 0
    /\ toggle_state = FALSE
    /\ press_edges_odd = FALSE
    /\ poller = [p \in 1..1 |-> NoPoller]
    /\ loop = [t \in 1..1 |-> NoLoop]
    /\ capturing = FALSE
    /\ captured_key = NoKey
    /\ capturing_hotkey = FALSE
    /\ capturer = [c \in 1..MaxCapturers |-> NoCapturer]
    /\ overflow_checks = TRUE
    /\ call = NoCall
    /\ InitLib

\* The callers of push_log on the control surface and on the loop worker, at most
\* MaxPushes lines in all
NextLog ==
    \/ Pushes(logs) < MaxPushes /\ LoadModel
    \/ Pushes(logs) < MaxPushes /\ SaveSettings
    \/ Pushes(logs) < MaxPushes /\ runs = 0 /\ StartClicked
    \/ Pushes(logs) < MaxPushes /\ StopClicked
    \/ \E t \in DOMAIN loop : Pushes(logs) < MaxPushes /\ LoopInit(t)
    \/ \E t \in DOMAIN loop : LoopExit(t)

SpecLog == InitLog /\ [][NextLog]_vars

\* C37: after any sequence of push_log calls the log holds at most LogCap (500)
\* entries; a push adds its line at the end and keeps the lines before it in push
\* order, and when the capacity is exceeded it is the oldest line that is removed.
Min2(a, b) == IF a < b THEN a ELSE b

\* The step has pushed one line onto the log
PushedLine(level, msg) ==
    LET n == Len(logs)
        m == Len(logs')
    IN  /\ m = Min2(n + 1, LogCap)
        /\ logs'[m] = [level |-> level, msg |-> msg]
        /\ \A i \in 1..(m - 1) : logs'[i] = logs[i + (n + 1 - m)]

C37_LogBound ==
    /\ [](Len(logs) <= LogCap)
    /\ [][/\ runs' # runs => PushedLine("Info", "start")
          /\ is_running /\ ~is_running' /\ loop' = loop => PushedLine("Info", "stop")
          /\ logs' # logs => \E level \in {"Info", "Error"} :
                                PushedLine(level, logs'[Len(logs')].msg)]_vars

\* A push has overflowed the buffer: the oldest line is gone, the newest is last
C37_Witness ==
    /\ Len(logs) = LogCap
    /\ logs[1].msg # "1"
    /\ logs[LogCap].level # "Debug"

-----------------------------------------------------------------------------
(* Lock discipline *)

\* The four threads, each going through its operations, interleaved in every way
NextLocks ==
    \/ \E th \in LockThreads : LockBegin(th)
    \/ \E th \in LockThreads : LockStep(th)

SpecLocks == Init /\ [][NextLocks]_vars

\* The thread is at a lock that another thread, or itself, holds
Waiting(th) ==
    /\ locks.todo[th].rest # <<>>
    /\ Head(locks.todo[th].rest)[1] = "acq"
    /\ locks.owner[Head(locks.todo[th].rest)[2]] # "free"

Holder(th) == locks.owner[Head(locks.todo[th].rest)[2]]

\* Every thread of the set waits for a lock held inside the set
Deadlocked(S) == \A th \in S : Waiting(th) /\ Holder(th) \in S

\* The loop is in a capture or inference call
InLongCall(th) ==
    /\ locks.todo[th].rest # <<>>
    /\ Head(locks.todo[th].rest) \in {Call("capture"), Call("run")}

\* set_confidence, the region-mode update, stop and the log view
ListedOps == {"set_confidence", "set_region_mode", "stop", "log_view"}

\* C36: no set of threads is ever deadlocked over the mutexes, and the control
\* surface, in set_confidence, the region-mode update, stop or the log view, never
\* waits for a lock that the loop holds during a capture or inference call.
C36_LockDiscipline ==
    /\ \A S \in (SUBSET LockThreads) \ {{}} : ~Deadlocked(S)
    /\ locks.todo["ui"].op \in ListedOps /\ Waiting("ui") /\ Holder("ui") = "loop"
          => ~InLongCall("loop")

\* The loop holds the model over the run while set_confidence holds the threshold
C36_Witness ==
    /\ locks.todo["ui"].op = "set_confidence"
    /\ locks.owner["conf_threshold"] = "ui"
    /\ locks.owner["model"] = "loop"
    /\ Head(locks.todo["loop"].rest) = Call("run")

====
